---- MODULE Spec2Model ----
(***************************************************************************)
(* The school-calendar core of src/main.py: the break merger               *)
(* (merge_and_normalize_breaks), the validator                             *)
(* (validate_and_filter_calendar_dates), the Georgia normalizer            *)
(* (normalize_georgia_calendar) and the multi-year inference engine        *)
(* (infer_missing_years), in the order extract_school_calendar runs them.  *)
(*                                                                         *)
(* A datetime is its proleptic Gregorian ordinal (an integer, None == 0),  *)
(* a 'YYYY-MM-DD' string is a record [y, m, d] (the empty string is        *)
(* [0, 0, 0]); strptime and strftime convert between the two.  A label, a  *)
(* name or a note is a sequence of one-character strings, so that          *)
(* lower(), strip(), replace() and the `in` substring test are computed.   *)
(***************************************************************************)
EXTENDS Integers, Sequences, FiniteSets, TLC

VARIABLES pc, rawDates, schoolYear, date_entries, merged, holidays, omitted,
          before, today

vars == <<pc, rawDates, schoolYear, date_entries, merged, holidays, omitted,
          before, today>>

(***************************************************************************)
(* Strings                                                                 *)
(***************************************************************************)
UpperChars == <<"A","B","C","D","E","F","G","H","I","J","K","L","M","N","O","P","Q","R","S","T","U","V","W","X","Y","Z">>

LowerChars == <<"a","b","c","d","e","f","g","h","i","j","k","l","m","n","o","p","q","r","s","t","u","v","w","x","y","z">>

\* str.lower(), one character
LowerChar(c) ==
    IF \E i \in DOMAIN UpperChars : UpperChars[i] = c
    THEN LowerChars[CHOOSE i \in DOMAIN UpperChars : UpperChars[i] = c]
    ELSE c

\* str.lower()
Lower(s) == [i \in 1..Len(s) |-> LowerChar(s[i])]

\* `sub in s`
Contains(s, sub) ==
    \E i \in 0..(Len(s) - Len(sub)) : \A j \in 1..Len(sub) : s[i + j] = sub[j]

\* any(p in s for p in patterns)
ContainsAny(s, patterns) == \E p \in patterns : Contains(s, p)

\* str.strip()
RECURSIVE LStrip(_)
LStrip(s) == IF s # <<>> /\ Head(s) = " " THEN LStrip(Tail(s)) ELSE s

RECURSIVE RStrip(_)
RStrip(s) ==
    IF s # <<>> /\ s[Len(s)] = " " THEN RStrip(SubSeq(s, 1, Len(s) - 1)) ELSE s

Strip(s) == RStrip(LStrip(s))

\* str.replace(ch, '') for a one-character ch
RemoveChar(s, ch) == SelectSeq(s, LAMBDA c : c # ch)

\* ', '.join(parts)
RECURSIVE Join(_)
Join(parts) ==
    IF parts = <<>> THEN <<>>
    ELSE IF Len(parts) = 1 THEN parts[1]
    ELSE parts[1] \o <<",", " ">> \o Join(Tail(parts))

\* the elements of a list, each once, in order of first occurrence
RECURSIVE Distinct(_)
Distinct(seq) ==
    IF seq = <<>> THEN <<>>
    ELSE LET rest == Distinct(SubSeq(seq, 1, Len(seq) - 1))
             x    == seq[Len(seq)]
         IN IF \E i \in DOMAIN rest : rest[i] = x THEN rest ELSE Append(rest, x)

(***************************************************************************)
(* Dates                                                                   *)
(***************************************************************************)
\* parse_date's failure value
None == 0

\* the empty or missing date string
NoDate == [y |-> 0, m |-> 0, d |-> 0]

D(y, m, d) == [y |-> y, m |-> m, d |-> d]

IsLeap(y) == y % 4 = 0 /\ (y % 100 # 0 \/ y % 400 = 0)

\* calendar.monthrange(year, month)[1]
DaysInMonth(y, m) ==
    IF m = 2 THEN (IF IsLeap(y) THEN 29 ELSE 28)
    ELSE IF m \in {4, 6, 9, 11} THEN 30 ELSE 31

\* the days of the year before the first of the month (m = 13: the whole year)
DaysBeforeMonth(y, m) ==
    IF m <= 1 THEN 0
    ELSE <<0, 31, 59, 90, 120, 151, 181, 212, 243, 273, 304, 334, 365>>[m]
         + (IF m > 2 /\ IsLeap(y) THEN 1 ELSE 0)

DaysBeforeYear(y) ==
    LET p == y - 1 IN p * 365 + (p \div 4) - (p \div 100) + (p \div 400)

\* datetime(y, m, d)
Ord(y, m, d) == DaysBeforeYear(y) + DaysBeforeMonth(y, m) + d

\* datetime.year
Year(n) ==
    LET In4(n400, n100, n4, n1) ==
            LET y == n400 * 400 + n100 * 100 + n4 * 4 + n1 + 1
            IN IF n1 = 4 \/ n100 = 4 THEN y - 1 ELSE y
        In100(n400, n100, r100) ==
            In4(n400, n100, r100 \div 1461, (r100 % 1461) \div 365)
        In400(n400, r400) == In100(n400, r400 \div 36524, r400 % 36524)
    IN In400((n - 1) \div 146097, (n - 1) % 146097)

\* datetime.month
Month(n) ==
    LET Estimated(y, k, m) == IF DaysBeforeMonth(y, m) >= k THEN m - 1 ELSE m
        OfDay(y, k) == Estimated(y, k, (k + 49) \div 32)
        InYear(y) == OfDay(y, n - DaysBeforeYear(y))
    IN InYear(Year(n))

\* datetime.day
Day(n) ==
    LET InYear(y) == n - DaysBeforeYear(y) - DaysBeforeMonth(y, Month(n))
    IN InYear(Year(n))

\* datetime.weekday(): Monday is 0
Weekday(n) == (n + 6) % 7

\* a string that datetime.strptime(s, '%Y-%m-%d') accepts
ValidDate(s) ==
    /\ s.y >= 1
    /\ s.m \in 1..12
    /\ s.d >= 1 /\ s.d <= DaysInMonth(s.y, s.m)

\* dt.strftime('%Y-%m-%d')
strftime(n) == [y |-> Year(n), m |-> Month(n), d |-> Day(n)]

\* datetime.strptime(s, '%Y-%m-%d'), inside a try that yields None
parse_date(s) == IF ValidDate(s) THEN Ord(s.y, s.m, s.d) ELSE None

\* the order of two date strings as Python compares str
StrLess(a, b) ==
    \/ a.y < b.y
    \/ a.y = b.y /\ a.m < b.m
    \/ a.y = b.y /\ a.m = b.m /\ a.d < b.d

(***************************************************************************)
(* Keywords and canonical names                                            *)
(***************************************************************************)
k_mlk == <<"m","l","k">>

k_martin_luther == <<"m","a","r","t","i","n"," ","l","u","t","h","e","r">>

k_king == <<"k","i","n","g">>

k_president == <<"p","r","e","s","i","d","e","n","t">>

k_presidents == <<"p","r","e","s","i","d","e","n","t","s">>

k_memorial == <<"m","e","m","o","r","i","a","l">>

k_labor == <<"l","a","b","o","r">>

k_day == <<"d","a","y">>

k_veteran == <<"v","e","t","e","r","a","n">>

k_easter == <<"e","a","s","t","e","r">>

k_independence == <<"i","n","d","e","p","e","n","d","e","n","c","e">>

k_july_4 == <<"j","u","l","y"," ","4">>

k_4th_of_july == <<"4","t","h"," ","o","f"," ","j","u","l","y">>

k_thanksgiving == <<"t","h","a","n","k","s","g","i","v","i","n","g">>

k_thank == <<"t","h","a","n","k">>

k_christmas == <<"c","h","r","i","s","t","m","a","s">>

k_spring == <<"s","p","r","i","n","g">>

k_break == <<"b","r","e","a","k">>

k_fall == <<"f","a","l","l">>

k_winter == <<"w","i","n","t","e","r">>

k_columbus == <<"c","o","l","u","m","b","u","s">>

k_indigenous == <<"i","n","d","i","g","e","n","o","u","s">>

k_students_do_not_report == <<"s","t","u","d","e","n","t","s"," ","d","o"," ","n","o","t"," ","r","e","p","o","r","t">>

k_student_holiday == <<"s","t","u","d","e","n","t"," ","h","o","l","i","d","a","y">>

k_school_holiday == <<"s","c","h","o","o","l"," ","h","o","l","i","d","a","y">>

k_shaded == <<"s","h","a","d","e","d">>

k_gray == <<"g","r","a","y">>

k_orange == <<"o","r","a","n","g","e">>

k_student_day_off == <<"s","t","u","d","e","n","t"," ","d","a","y"," ","o","f","f">>

k_staff_development == <<"s","t","a","f","f"," ","d","e","v","e","l","o","p","m","e","n","t">>

k_independent_learning == <<"i","n","d","e","p","e","n","d","e","n","t"," ","l","e","a","r","n","i","n","g">>

n_MLK_Day == <<"M","L","K"," ","D","a","y">>

n_Presidents_Day == <<"P","r","e","s","i","d","e","n","t","s"," ","D","a","y">>

n_Memorial_Day == <<"M","e","m","o","r","i","a","l"," ","D","a","y">>

n_Labor_Day == <<"L","a","b","o","r"," ","D","a","y">>

n_Veterans_Day == <<"V","e","t","e","r","a","n","s"," ","D","a","y">>

n_Easter == <<"E","a","s","t","e","r">>

n_Independence_Day == <<"I","n","d","e","p","e","n","d","e","n","c","e"," ","D","a","y">>

n_Thanksgiving_Break == <<"T","h","a","n","k","s","g","i","v","i","n","g"," ","B","r","e","a","k">>

n_Christmas_Break == <<"C","h","r","i","s","t","m","a","s"," ","B","r","e","a","k">>

n_Spring_Break == <<"S","p","r","i","n","g"," ","B","r","e","a","k">>

n_Fall_Break == <<"F","a","l","l"," ","B","r","e","a","k">>

n_Winter_Break == <<"W","i","n","t","e","r"," ","B","r","e","a","k">>

n_Student_Holiday == <<"S","t","u","d","e","n","t"," ","H","o","l","i","d","a","y">>

n_Teacher_Work_Day == <<"T","e","a","c","h","e","r"," ","W","o","r","k"," ","D","a","y">>

(***************************************************************************)
(* merge_and_normalize_breaks: day-off resolution                          *)
(***************************************************************************)
closure_indicators ==
    {k_students_do_not_report,
     <<"s","c","h","o","o","l","s"," ","c","l","o","s","e","d">>,
     k_student_holiday,
     k_school_holiday,
     <<"d","a","y"," ","o","f","f">>,
     <<"n","o"," ","s","c","h","o","o","l">>,
     k_shaded,
     k_gray,
     k_orange}

calendar_marker_patterns ==
    {<<"e","n","d"," ","o","f"," ","n","i","n","e"," ","w","e","e","k","s">>,
     <<"e","n","d"," ","o","f"," ","1","s","t"," ","n","i","n","e"," ","w","e","e","k","s">>,
     <<"e","n","d"," ","o","f"," ","2","n","d"," ","n","i","n","e"," ","w","e","e","k","s">>,
     <<"e","n","d"," ","o","f"," ","3","r","d"," ","n","i","n","e"," ","w","e","e","k","s">>,
     <<"e","n","d"," ","o","f"," ","4","t","h"," ","n","i","n","e"," ","w","e","e","k","s">>,
     <<"e","n","d"," ","o","f"," ","f","i","r","s","t"," ","n","i","n","e"," ","w","e","e","k","s">>,
     <<"e","n","d"," ","o","f"," ","s","e","c","o","n","d"," ","n","i","n","e"," ","w","e","e","k","s">>,
     <<"e","n","d"," ","o","f"," ","t","h","i","r","d"," ","n","i","n","e"," ","w","e","e","k","s">>,
     <<"e","n","d"," ","o","f"," ","f","o","u","r","t","h"," ","n","i","n","e"," ","w","e","e","k","s">>,
     <<"f","i","r","s","t"," ","d","a","y"," ","o","f"," ","s","c","h","o","o","l">>,
     <<"l","a","s","t"," ","d","a","y"," ","o","f"," ","s","c","h","o","o","l">>,
     <<"l","a","s","t"," ","d","a","y"," ","o","f"," ","s","e","m","e","s","t","e","r">>,
     <<"e","n","d"," ","o","f"," ","s","e","m","e","s","t","e","r">>,
     <<"r","e","p","o","r","t"," ","c","a","r","d">>,
     <<"p","r","o","g","r","e","s","s"," ","r","e","p","o","r","t">>}

day_off_indicators ==
    {<<"t","e","a","c","h","e","r"," ","w","o","r","k"," ","d","a","y">>,
     <<"t","e","a","c","h","e","r"," ","w","o","r","k","d","a","y">>,
     k_student_holiday,
     k_student_day_off,
     <<"p","r","o","f","e","s","s","i","o","n","a","l"," ","d","e","v","e","l","o","p","m","e","n","t">>,
     <<"p","l","a","n","n","i","n","g"," ","d","a","y">>,
     <<"t","e","a","c","h","e","r"," ","p","l","a","n","n","i","n","g">>,
     k_staff_development,
     <<"s","t","u","d","e","n","t","s"," ","o","u","t">>}

\* the first loop over rawDates: the date of the last 'first day ... school' entry
RECURSIVE first_day_of_school(_)
first_day_of_school(raw) ==
    IF raw = <<>> THEN None
    ELSE LET entry       == raw[Len(raw)]
             label_lower == Lower(entry.label)
         IN IF Contains(label_lower, <<"f","i","r","s","t"," ","d","a","y">>) /\ Contains(label_lower, <<"s","c","h","o","o","l">>)
            THEN parse_date(entry.date)
            ELSE first_day_of_school(SubSeq(raw, 1, Len(raw) - 1))

\* entry.get('isStudentDayOff', True)
DayOffFlag(entry) ==
    IF entry.isStudentDayOff = <<>> THEN TRUE ELSE entry.isStudentDayOff[1]

\* the `continue` statements of the second loop: the entry is dropped
Skipped(entry, first_day) ==
    LET start         == parse_date(entry.date)
        label_lower   == Lower(entry.label)
        notes_lower   == Lower(entry.notes)
        combined_text == label_lower \o <<" ">> \o notes_lower
    IN \/ /\ Contains(label_lower, k_columbus) \/ Contains(label_lower, k_indigenous)
          /\ ~ContainsAny(combined_text, closure_indicators)
       \/ /\ ContainsAny(label_lower, calendar_marker_patterns)
          /\ ~\E ind \in day_off_indicators :
                 Contains(label_lower, ind) \/ Contains(notes_lower, ind)
       \/ Contains(label_lower, <<"e","a","r","l","y"," ","r","e","l","e","a","s","e">>)
       \/ /\ \/ Contains(label_lower, <<"d","i","g","i","t","a","l"," ","l","e","a","r","n","i","n","g">>)
             \/ Contains(label_lower, k_independent_learning)
             \/ Contains(label_lower, <<"v","i","r","t","u","a","l"," ","l","e","a","r","n","i","n","g">>)
          /\ ~ \/ Contains(combined_text, <<"s","t","u","d","e","n","t">>) /\ Contains(combined_text, <<"h","o","l","i","d","a","y">>)
               \/ Contains(combined_text, k_student_day_off)
               \/ Contains(combined_text, k_school_holiday)
       \/ Contains(label_lower, k_independent_learning) /\ Contains(label_lower, <<"p","l"," ","d","a","y">>)
       \/ Strip(label_lower) = <<"i","n","d","e","p","e","n","d","e","n","t"," ","l","e","a","r","n","i","n","g"," ","/"," ","p","l"," ","d","a","y">>
       \/ Strip(label_lower) = <<"i","n","d","e","p","e","n","d","e","n","t"," ","l","e","a","r","n","i","n","g","/","p","l"," ","d","a","y">>
       \/ /\ first_day # None /\ start < first_day
          /\ \/ Contains(label_lower, <<"p","r","e","-","p","l","a","n","n","i","n","g">>)
             \/ Contains(label_lower, <<"p","r","e","p","l","a","n","n","i","n","g">>)
             \/ /\ Contains(label_lower, k_staff_development)
                /\ ~Contains(combined_text, k_student_holiday)

\* is_day_off of an entry that is not skipped
is_day_off(entry) ==
    LET label_lower   == Lower(entry.label)
        combined_text == label_lower \o <<" ">> \o Lower(entry.notes)
        flag          == IF entry.category = "early_release" THEN FALSE
                         ELSE DayOffFlag(entry)
    IN IF \/ Contains(combined_text, k_student_holiday)
          \/ Contains(combined_text, k_student_day_off)
       THEN TRUE
       ELSE IF \/ Contains(combined_text, k_students_do_not_report)
               \/ Contains(combined_text, <<"s","t","u","d","e","n","t"," ","d","o"," ","n","o","t"," ","r","e","p","o","r","t">>)
       THEN TRUE
       ELSE IF entry.category \in {"teacher_day", "teacher_planning"}
       THEN IF entry.isStudentDayOff = <<TRUE>> THEN TRUE
            ELSE IF Contains(label_lower, <<"w","o","r","k","d","a","y">>) \/ Contains(label_lower, <<"w","o","r","k"," ","d","a","y">>)
            THEN TRUE
            ELSE flag
       ELSE flag

\* the entry appended to date_entries, or nothing
Resolve(entry, first_day) ==
    LET start == parse_date(entry.date)
        pend  == parse_date(entry.endDate)
        end   == IF pend # None THEN pend ELSE start
    IN IF start = None \/ Skipped(entry, first_day) \/ ~is_day_off(entry)
       THEN <<>>
       ELSE << [start |-> start, end |-> end, label |-> entry.label,
                category |-> entry.category] >>

RECURSIVE ResolveAll(_, _)
ResolveAll(raw, first_day) ==
    IF raw = <<>> THEN <<>>
    ELSE Resolve(Head(raw), first_day) \o ResolveAll(Tail(raw), first_day)

\* list.sort(key=lambda x: x['start']): a stable sort
RECURSIVE SortByStart(_)
SortByStart(entries) ==
    IF entries = <<>> THEN <<>>
    ELSE LET rest == SortByStart(SubSeq(entries, 1, Len(entries) - 1))
             x    == entries[Len(entries)]
             k    == Cardinality({i \in DOMAIN rest : rest[i].start <= x.start})
         IN SubSeq(rest, 1, k) \o <<x>> \o SubSeq(rest, k + 1, Len(rest))

\* date_entries as the merge loop reads it
ResolvedEntries(raw) == SortByStart(ResolveAll(raw, first_day_of_school(raw)))

(***************************************************************************)
(* merge_and_normalize_breaks: the merge loop                              *)
(***************************************************************************)
Max(a, b) == IF a >= b THEN a ELSE b

Min(a, b) == IF a <= b THEN a ELSE b

NewRun(entry) ==
    [start |-> entry.start, end |-> entry.end,
     labels |-> <<entry.label>>, categories |-> <<entry.category>>]

\* the weekend rules tried when 1 < gap_days <= 3
WeekendBridge(current_end, entry_start, gap_days) ==
    \/ Weekday(current_end) = 4 /\ Weekday(entry_start) = 0
    \/ Weekday(current_end) = 4 /\ Weekday(entry_start) = 1
    \/ Weekday(current_end) = 5 /\ Weekday(entry_start) = 0
    \/ Weekday(current_end) = 6 /\ Weekday(entry_start) = 0
    \/ Weekday(entry_start) = 0 /\ gap_days <= 3

\* the cross-month rule with the month test inverted
CrossMonthSameMonth(current_end, entry_start, gap_days) ==
    /\ Month(current_end) = Month(entry_start)
    /\ Day(current_end) >= 28 /\ Day(entry_start) <= 5
    /\ gap_days <= 5

\* the cross-month rule
CrossMonth(current_end, entry_start, gap_days) ==
    /\ Month(current_end) # Month(entry_start)
    /\ Day(current_end) >= 28 /\ Day(entry_start) <= 5
    /\ gap_days <= 5

\* a merge test that joins every entry within 5 days of the run
should_merge_within_five(current, entry) == entry.start - current.end <= 5

should_merge(current, entry) ==
    LET gap_days == entry.start - current.end
    IN \/ gap_days <= 1
       \/ gap_days > 1 /\ gap_days <= 3 /\ WeekendBridge(current.end, entry.start, gap_days)
       \/ CrossMonth(current.end, entry.start, gap_days)

\* one iteration of the loop; st.current holds the open run, if any
MergeStep(st, entry) ==
    IF st.current = <<>>
    THEN [merged |-> st.merged, current |-> <<NewRun(entry)>>]
    ELSE LET current == st.current[1]
         IN IF should_merge(current, entry)
            THEN [merged  |-> st.merged,
                  current |-> << [current EXCEPT
                                   !.end = Max(current.end, entry.end),
                                   !.labels = Append(current.labels, entry.label),
                                   !.categories = Append(current.categories, entry.category)] >>]
            ELSE [merged  |-> Append(st.merged, current),
                  current |-> <<NewRun(entry)>>]

RECURSIVE MergeLoop(_, _)
MergeLoop(st, entries) ==
    IF entries = <<>> THEN st
    ELSE MergeLoop(MergeStep(st, Head(entries)), Tail(entries))

\* the loop's state after the first k entries
LoopState(entries, k) ==
    MergeLoop([merged |-> <<>>, current |-> <<>>], SubSeq(entries, 1, k))

\* merged, after `if current: merged.append(current)`
MergedRuns(entries) ==
    LET st == LoopState(entries, Len(entries)) IN st.merged \o st.current

t_Merged_from == <<"M","e","r","g","e","d"," ","f","r","o","m",":"," ">>

t_Also_Presidents == <<"A","l","s","o"," ","i","n","t","e","r","p","r","e","t","e","d"," ","a","s"," ","P","r","e","s","i","d","e","n","t","s"," ","D","a","y"," ","W","e","e","k","e","n","d"," ","(","o","v","e","r","l","a","p","p","i","n","g"," ","w","i","t","h"," ","W","i","n","t","e","r"," ","B","r","e","a","k",")">>

t_Also_Winter == <<"A","l","s","o"," ","i","n","t","e","r","p","r","e","t","e","d"," ","a","s"," ","W","i","n","t","e","r"," ","B","r","e","a","k"," ","(","o","v","e","r","l","a","p","p","i","n","g"," ","w","i","t","h"," ","P","r","e","s","i","d","e","n","t","s"," ","D","a","y",")">>

t_Consolidated_from == <<"C","o","n","s","o","l","i","d","a","t","e","d"," ","f","r","o","m",":"," ">>

t_Inferred_from_school_year == <<"I","n","f","e","r","r","e","d"," ","f","r","o","m"," ","s","c","h","o","o","l"," ","y","e","a","r"," ","(","O","C","R"," ","m","a","y"," ","h","a","v","e"," ","m","i","s","s","e","d"," ","t","h","i","s",")">>

t_Merged_February == <<"M","e","r","g","e","d"," ","F","e","b","r","u","a","r","y"," ","b","r","e","a","k"," ","(","i","n","c","l","u","d","e","s"," ","P","r","e","s","i","d","e","n","t","s"," ","D","a","y"," ","w","e","e","k","e","n","d",")">>

t_Inferred_from == <<"I","n","f","e","r","r","e","d"," ","f","r","o","m"," ">>

t_calendar == <<" ","c","a","l","e","n","d","a","r">>

(***************************************************************************)
(* merge_and_normalize_breaks: naming                                      *)
(***************************************************************************)
get_break_name(month, label, is_multi_day) ==
    LET label_lower == Lower(label)
    IN IF \/ Contains(label_lower, k_mlk)
          \/ Contains(label_lower, k_martin_luther)
          \/ Contains(label_lower, k_king)                   THEN n_MLK_Day
       ELSE IF Contains(label_lower, k_president)            THEN n_Presidents_Day
       ELSE IF Contains(label_lower, k_memorial)             THEN n_Memorial_Day
       ELSE IF Contains(label_lower, k_labor)                THEN n_Labor_Day
       ELSE IF Contains(label_lower, k_veteran)              THEN n_Veterans_Day
       ELSE IF Contains(label_lower, k_easter)               THEN n_Easter
       ELSE IF \/ Contains(label_lower, k_independence)
               \/ Contains(label_lower, k_july_4)
               \/ Contains(label_lower, k_4th_of_july)       THEN n_Independence_Day
       ELSE IF \/ Contains(label_lower, k_thanksgiving)
               \/ Contains(label_lower, k_thank)             THEN n_Thanksgiving_Break
       ELSE IF Contains(label_lower, k_christmas)            THEN n_Christmas_Break
       ELSE IF Contains(label_lower, k_spring) /\ Contains(label_lower, k_break)
                                                             THEN n_Spring_Break
       ELSE IF Contains(label_lower, k_fall) /\ Contains(label_lower, k_break)
                                                             THEN n_Fall_Break
       ELSE IF Contains(label_lower, k_winter) /\ Contains(label_lower, k_break)
            THEN (IF month = 12 THEN n_Christmas_Break ELSE n_Winter_Break)
       ELSE IF is_multi_day /\ month = 12                    THEN n_Christmas_Break
       ELSE IF is_multi_day /\ month = 2                     THEN n_Winter_Break
       ELSE IF is_multi_day /\ month = 10                    THEN n_Fall_Break
       ELSE IF is_multi_day /\ month \in {3, 4}              THEN n_Spring_Break
       ELSE IF is_multi_day /\ month = 11                    THEN n_Thanksgiving_Break
       ELSE IF month = 10                                    THEN n_Fall_Break
       ELSE IF label # <<>> THEN label ELSE n_Student_Holiday

\* the first label that contains 'break', else the first label
primary_label(labels) ==
    LET hits == {i \in DOMAIN labels :
                    labels[i] # <<>> /\ Contains(Lower(labels[i]), k_break)}
    IN IF hits # {} THEN labels[CHOOSE i \in hits : \A j \in hits : i <= j]
       ELSE labels[1]

Holiday(name, startDate, endDate, notes) ==
    [name |-> name, startDate |-> startDate, endDate |-> endDate,
     isOmitted |-> FALSE, notes |-> notes, inferred |-> <<>>, sourceYear |-> <<>>]

\* the orders in which set(labels) may be iterated
LabelOrders(labels) ==
    LET u == Distinct(labels)
        n == Len(u)
    IN {[i \in 1..n |-> u[p[i]]] :
           p \in {q \in [1..n -> 1..n] : \A i, j \in 1..n : i # j => q[i] # q[j]}}

\* the one or two holidays appended for a merged run m
RunHolidays(m, label_order) ==
    LET start_month   == Month(m.start)
        duration_days == m.end - m.start
        is_multi_day  == duration_days >= 2
        name          == get_break_name(start_month, primary_label(m.labels), is_multi_day)
        notes         == IF Len(m.labels) > 1 THEN t_Merged_from \o Join(label_order)
                         ELSE <<>>
    IN << Holiday(name, strftime(m.start), strftime(m.end), notes) >>
       \o (IF start_month = 2 /\ is_multi_day /\ name = n_Winter_Break
           THEN << Holiday(n_Presidents_Day, strftime(m.start), strftime(m.end),
                           t_Also_Presidents) >>
           ELSE IF start_month = 2 /\ is_multi_day /\ name = n_Presidents_Day
           THEN << Holiday(n_Winter_Break, strftime(m.start), strftime(m.end),
                           t_Also_Winter) >>
           ELSE <<>>)

\* the holidays lists the naming loop can produce for the merged runs
RECURSIVE NamedLists(_)
NamedLists(runs) ==
    IF runs = <<>> THEN {<<>>}
    ELSE {RunHolidays(Head(runs), o) \o rest :
             o \in LabelOrders(Head(runs).labels), rest \in NamedLists(Tail(runs))}

(***************************************************************************)
(* merge_and_normalize_breaks: only the longest Fall Break keeps its name  *)
(***************************************************************************)
\* (end - start).days of a holiday
get_duration(h) == parse_date(h.endDate) - parse_date(h.startDate)

\* str.replace(sub, '')
RECURSIVE Remove(_, _)
Remove(s, sub) ==
    IF Len(s) < Len(sub) \/ sub = <<>> THEN s
    ELSE IF SubSeq(s, 1, Len(sub)) = sub
         THEN Remove(SubSeq(s, Len(sub) + 1, Len(s)), sub)
         ELSE <<Head(s)>> \o Remove(Tail(s), sub)

RenameFallBreaks(hs) ==
    LET fall_breaks == {i \in DOMAIN hs : hs[i].name = n_Fall_Break}
    IN IF Cardinality(fall_breaks) <= 1 THEN hs
       ELSE LET longest == CHOOSE i \in fall_breaks :
                              \A j \in fall_breaks :
                                 \/ get_duration(hs[j]) < get_duration(hs[i])
                                 \/ get_duration(hs[j]) = get_duration(hs[i]) /\ i <= j
                original_label(h) == Remove(h.notes, t_Merged_from)
            IN [i \in DOMAIN hs |->
                  IF hs[i].name = n_Fall_Break /\ hs[i] # hs[longest]
                  THEN [hs[i] EXCEPT !.name =
                          IF original_label(hs[i]) = <<>> THEN n_Student_Holiday
                          ELSE IF Contains(Lower(original_label(hs[i])), <<"t","e","a","c","h","e","r">>)
                               THEN n_Teacher_Work_Day
                               ELSE original_label(hs[i])]
                  ELSE hs[i]]

(***************************************************************************)
(* merge_and_normalize_breaks: the school year                             *)
(***************************************************************************)
DigitChars == <<"0","1","2","3","4","5","6","7","8","9">>

IsDigit(c) == \E i \in DOMAIN DigitChars : DigitChars[i] = c

DigitVal(c) == (CHOOSE i \in DOMAIN DigitChars : DigitChars[i] = c) - 1

\* int(s) succeeds
IntOk(s) == s # <<>> /\ \A i \in DOMAIN s : IsDigit(s[i])

\* int(s)
RECURSIVE ToInt(_)
ToInt(s) ==
    IF s = <<>> THEN 0
    ELSE ToInt(SubSeq(s, 1, Len(s) - 1)) * 10 + DigitVal(s[Len(s)])

\* str(n) for n >= 0
RECURSIVE ToStr(_)
ToStr(n) ==
    IF n < 10 THEN <<DigitChars[n + 1]>>
    ELSE ToStr(n \div 10) \o <<DigitChars[(n % 10) + 1]>>

\* s.split(sep) for a one-character sep
RECURSIVE Split(_, _)
Split(s, sep) ==
    IF \A i \in DOMAIN s : s[i] # sep THEN <<s>>
    ELSE LET k == CHOOSE i \in DOMAIN s :
                     s[i] = sep /\ \A j \in 1..(i - 1) : s[j] # sep
         IN <<SubSeq(s, 1, k - 1)>> \o Split(SubSeq(s, k + 1, Len(s)), sep)

\* int(school_year.split('-')[i - 1]) succeeds and is a year datetime accepts
YearPartOk(school_year, i) ==
    LET parts == Split(school_year, "-")
    IN Len(parts) >= i /\ IntOk(parts[i])

YearPart(school_year, i) == ToInt(Split(school_year, "-")[i])

\* datetime(year, ...) accepts the year
YearInRange(year) == year >= 1 /\ year <= 9999

(***************************************************************************)
(* merge_and_normalize_breaks: February and November consolidation         *)
(***************************************************************************)
\* every day from startDate to endDate of the holidays at the indexes idx
AllDates(hs, idx) ==
    UNION {parse_date(hs[i].startDate)..parse_date(hs[i].endDate) : i \in idx}

MinOf(S) == CHOOSE x \in S : \A y \in S : x <= y

MaxOf(S) == CHOOSE x \in S : \A y \in S : x >= y

\* while d.weekday() >= 5 and d > floor: d -= 1 day
RECURSIVE TrimWeekend(_, _)
TrimWeekend(d, floor) ==
    IF Weekday(d) >= 5 /\ d > floor THEN TrimWeekend(d - 1, floor) ELSE d

\* the subsequence of hs at the indexes idx
Pick(hs, idx) == SelectSeq([i \in DOMAIN hs |-> <<i, hs[i]>>], LAMBDA p : p[1] \in idx)

Items(pairs) == [i \in DOMAIN pairs |-> pairs[i][2]]

\* the names of the holidays at idx, as list(set(...)) may order them
NameOrders(hs, idx) == LabelOrders(Items(Pick([i \in DOMAIN hs |-> hs[i].name], idx)))

ConsolidatedNotes(order) ==
    IF Len(order) > 1 THEN t_Consolidated_from \o Join(order) ELSE <<>>

InFebruaryRange(h, spring_year) ==
    LET s == parse_date(h.startDate)
    IN h.startDate # NoDate /\ Month(s) = 2 /\ Year(s) = spring_year /\ Day(s) >= 14

\* the February consolidation keeping the latest end on its weekend
ConsolidateFebruaryUntrimmed(hs, school_year) ==
    IF school_year = <<>> \/ ~YearPartOk(school_year, 2) THEN {hs}
    ELSE LET spring_year == YearPart(school_year, 2)
             feb   == {i \in DOMAIN hs : InFebruaryRange(hs[i], spring_year)}
             dates == AllDates(hs, feb)
         IN IF feb = {} \/ dates = {} THEN {hs}
            ELSE {Items(Pick(hs, DOMAIN hs \ feb))
                    \o << Holiday(n_Winter_Break, strftime(MinOf(dates)),
                                  strftime(MaxOf(dates)), ConsolidatedNotes(o)) >> :
                     o \in NameOrders(hs, feb)}

\* the holidays lists the February consolidation can produce
ConsolidateFebruary(hs, school_year) ==
    IF school_year = <<>> \/ ~YearPartOk(school_year, 2) THEN {hs}
    ELSE LET spring_year == YearPart(school_year, 2)
             feb   == {i \in DOMAIN hs : InFebruaryRange(hs[i], spring_year)}
             dates == AllDates(hs, feb)
         IN IF feb = {} \/ dates = {} THEN {hs}
            ELSE {Items(Pick(hs, DOMAIN hs \ feb))
                    \o << Holiday(n_Winter_Break, strftime(MinOf(dates)),
                                  strftime(TrimWeekend(MaxOf(dates), MinOf(dates))),
                                  ConsolidatedNotes(o)) >> :
                     o \in NameOrders(hs, feb)}

\* first Thursday of November plus three weeks
ActualThanksgiving(fall_year) ==
    LET nov_first == Ord(fall_year, 11, 1)
        days_until_thursday == (3 - Weekday(nov_first)) % 7
    IN nov_first + days_until_thursday + 21

InNovemberRange(h, fall_year) ==
    LET s == parse_date(h.startDate)
    IN h.startDate # NoDate /\ Month(s) = 11 /\ Year(s) = fall_year /\ Day(s) >= 22

\* the November consolidation without its check of the merged span
ConsolidateNovemberUnchecked(hs, school_year) ==
    IF school_year = <<>> \/ ~YearPartOk(school_year, 1) THEN {hs}
    ELSE LET fall_year == YearPart(school_year, 1)
             nov   == {i \in DOMAIN hs : InNovemberRange(hs[i], fall_year)}
             dates == AllDates(hs, nov)
         IN IF Cardinality(nov) < 2 \/ dates = {} \/ ~YearInRange(fall_year) THEN {hs}
            ELSE {Items(Pick(hs, DOMAIN hs \ nov))
                    \o << Holiday(n_Thanksgiving_Break, strftime(MinOf(dates)),
                                  strftime(TrimWeekend(MaxOf(dates), MinOf(dates))),
                                  ConsolidatedNotes(o)) >> :
                     o \in NameOrders(hs, nov)}

\* the holidays lists the November consolidation can produce
ConsolidateNovember(hs, school_year) ==
    IF school_year = <<>> \/ ~YearPartOk(school_year, 1) THEN {hs}
    ELSE LET fall_year == YearPart(school_year, 1)
             nov   == {i \in DOMAIN hs : InNovemberRange(hs[i], fall_year)}
             dates == AllDates(hs, nov)
         IN IF Cardinality(nov) < 2 \/ dates = {} \/ ~YearInRange(fall_year) THEN {hs}
            ELSE LET min_date == MinOf(dates)
                     max_date == TrimWeekend(MaxOf(dates), min_date)
                     duration_days == max_date - min_date + 1
                     includes_thanksgiving ==
                         /\ min_date <= ActualThanksgiving(fall_year)
                         /\ ActualThanksgiving(fall_year) <= max_date
                 IN IF duration_days >= 3 /\ includes_thanksgiving
                    THEN {Items(Pick(hs, DOMAIN hs \ nov))
                            \o << Holiday(n_Thanksgiving_Break, strftime(min_date),
                                          strftime(max_date), ConsolidatedNotes(o)) >> :
                             o \in NameOrders(hs, nov)}
                    ELSE {hs}

(***************************************************************************)
(* merge_and_normalize_breaks: Thanksgiving fallback and omitted holidays  *)
(***************************************************************************)
\* a fallback that spans Thanksgiving Day and the Friday after it only
ThanksgivingFallbackFromThursday(hs, school_year) ==
    IF \E i \in DOMAIN hs : hs[i].name = n_Thanksgiving_Break THEN hs
    ELSE IF school_year = <<>> \/ ~YearPartOk(school_year, 1) THEN hs
    ELSE IF ~YearInRange(YearPart(school_year, 1)) THEN hs
    ELSE LET thanksgiving_day == ActualThanksgiving(YearPart(school_year, 1))
         IN Append(hs, Holiday(n_Thanksgiving_Break, strftime(thanksgiving_day),
                               strftime(thanksgiving_day + 1),
                               t_Inferred_from_school_year))

ThanksgivingFallback(hs, school_year) ==
    IF \E i \in DOMAIN hs : hs[i].name = n_Thanksgiving_Break THEN hs
    ELSE IF school_year = <<>> \/ ~YearPartOk(school_year, 1) THEN hs
    ELSE IF ~YearInRange(YearPart(school_year, 1)) THEN hs
    ELSE LET thanksgiving_day == ActualThanksgiving(YearPart(school_year, 1))
             monday_of_week   == thanksgiving_day - Weekday(thanksgiving_day)
             friday_of_week   == monday_of_week + 4
         IN Append(hs, Holiday(n_Thanksgiving_Break, strftime(monday_of_week),
                               strftime(friday_of_week), t_Inferred_from_school_year))

standard_holidays ==
    <<n_MLK_Day, n_Presidents_Day, n_Spring_Break, n_Easter, n_Memorial_Day,
      n_Labor_Day, n_Fall_Break, n_Veterans_Day, n_Thanksgiving_Break,
      n_Christmas_Break, n_Winter_Break>>

\* omittedHolidays: the standard names not found, Christmas Break removed
Omitted(hs) ==
    SelectSeq(standard_holidays,
              LAMBDA n : n # n_Christmas_Break /\ ~\E i \in DOMAIN hs : hs[i].name = n)

\* the holidays lists merge_and_normalize_breaks can return for sorted entries
MergeOutputs(entries, school_year) ==
    IF entries = <<>> THEN {<<>>}
    ELSE UNION { UNION { {ThanksgivingFallback(n, school_year) :
                            n \in ConsolidateNovember(f, school_year)} :
                         f \in ConsolidateFebruary(RenameFallBreaks(h0), school_year)} :
                 h0 \in NamedLists(MergedRuns(entries)) }

(***************************************************************************)
(* add_missing_breaks_from_shading (the PDF path, after the merge)         *)
(***************************************************************************)
t_Detected_from_visual_shading_in_calendar == <<"D","e","t","e","c","t","e","d"," ","f","r","o","m"," ","v","i","s","u","a","l"," ","s","h","a","d","i","n","g"," ","i","n"," ","c","a","l","e","n","d","a","r">>

t_Also_interpreted_as_Presidents_Day_overlapping_with_Winter_Break == <<"A","l","s","o"," ","i","n","t","e","r","p","r","e","t","e","d"," ","a","s"," ","P","r","e","s","i","d","e","n","t","s"," ","D","a","y"," ","(","o","v","e","r","l","a","p","p","i","n","g"," ","w","i","t","h"," ","W","i","n","t","e","r"," ","B","r","e","a","k",")">>

\* re.search(r'(\d{4})-(\d{2,4})', school_year): where the match starts, or 0
YearMatchStart(s) ==
    LET Here(i) == /\ i + 6 <= Len(s)
                   /\ \A j \in 0..3 : IsDigit(s[i + j])
                   /\ s[i + 4] = "-"
                   /\ IsDigit(s[i + 5])
                   /\ IsDigit(s[i + 6])
    IN IF \E i \in DOMAIN s : Here(i)
       THEN CHOOSE i \in DOMAIN s : Here(i) /\ \A j \in 1..(i - 1) : ~Here(j)
       ELSE 0

\* year_match: <<first year, second year>> of the school year, or <<>>
year_match(school_year) ==
    LET s == school_year
        Second(group) == IF Len(group) = 4 THEN ToInt(group) ELSE 2000 + ToInt(group)
        Groups(i, n) == <<ToInt(SubSeq(s, i, i + 3)), Second(SubSeq(s, i + 5, i + 4 + n))>>
        Match(i) ==
            IF i + 7 <= Len(s) /\ IsDigit(s[i + 7])
            THEN IF i + 8 <= Len(s) /\ IsDigit(s[i + 8]) THEN Groups(i, 4) ELSE Groups(i, 3)
            ELSE Groups(i, 2)
        From(i) == IF i = 0 THEN <<>> ELSE Match(i)
    IN From(YearMatchStart(s))

\* every day strictly between day1 and day2 is a Saturday or a Sunday
is_weekend_gap(year, month, day1, day2) ==
    \/ day2 <= day1 + 1
    \/ \A d \in (day1 + 1)..(day2 - 1) :
          /\ YearInRange(year) /\ d >= 1 /\ d <= DaysInMonth(year, month)
          /\ Weekday(Ord(year, month, d)) >= 5

\* sorted(set(days))
RECURSIVE SortedDays(_)
SortedDays(days) ==
    IF days = {} THEN <<>>
    ELSE <<MinOf(days)>> \o SortedDays(days \ {MinOf(days)})

\* consecutive_runs: the runs closed while scanning the rest of the sorted
\* days with the run start..end open
RECURSIVE ConsecutiveRuns(_, _, _, _, _)
ConsecutiveRuns(year, month, rest, start, end) ==
    LET Closed == IF end - start >= 1 THEN << <<start, end>> >> ELSE <<>>
    IN IF rest = <<>> THEN Closed
       ELSE IF rest[1] = end + 1 \/ is_weekend_gap(year, month, end, rest[1])
       THEN ConsecutiveRuns(year, month, Tail(rest), start, rest[1])
       ELSE Closed \o ConsecutiveRuns(year, month, Tail(rest), rest[1], rest[1])

\* the holidays after the shaded February days of shading_info are added
\* (shaded days of the other months add nothing)
add_missing_breaks_from_shading(hs, school_year, february_days) ==
    LET Added(year, start_day, end_day) ==
            hs \o << Holiday(n_Winter_Break, D(year, 2, start_day), D(year, 2, end_day),
                             t_Detected_from_visual_shading_in_calendar),
                     Holiday(n_Presidents_Day, D(year, 2, start_day), D(year, 2, end_day),
                             t_Also_interpreted_as_Presidents_Day_overlapping_with_Winter_Break) >>
        Dated(year, run) ==
            /\ YearInRange(year)
            /\ run[1] >= 1
            /\ run[2] <= DaysInMonth(year, 2)
        First(year, runs) ==
            IF \E k \in DOMAIN runs : Dated(year, runs[k])
            THEN Added(year, runs[MinOf({k \in DOMAIN runs : Dated(year, runs[k])})][1],
                       runs[MinOf({k \in DOMAIN runs : Dated(year, runs[k])})][2])
            ELSE hs
        Runs(year, days) ==
            First(year, ConsecutiveRuns(year, 2, Tail(days), days[1], days[1]))
    IN IF Cardinality(february_days) < 2 \/ year_match(school_year) = <<>> THEN hs
       ELSE IF \E i \in DOMAIN hs : hs[i].name \in {n_Winter_Break, n_Presidents_Day}
       THEN hs
       ELSE Runs(year_match(school_year)[2], SortedDays(february_days))

(***************************************************************************)
(* validate_and_filter_calendar_dates                                      *)
(***************************************************************************)
\* a variant of the loop body without the Columbus Day filter
ValidateOneColumbusKept(h) ==
    IF h.startDate = NoDate THEN <<>>
    ELSE IF ~ValidDate(h.startDate) \/ (h.endDate # NoDate /\ ~ValidDate(h.endDate))
    THEN <<h>>
    ELSE LET start == parse_date(h.startDate)
             end   == IF h.endDate # NoDate THEN parse_date(h.endDate) ELSE start
         IN << [h EXCEPT !.endDate = strftime(TrimWeekend(end, start))] >>

\* the validated holiday for h, or nothing when h is dropped
ValidateOne(h) ==
    IF h.startDate = NoDate THEN <<>>
    ELSE IF ~ValidDate(h.startDate) \/ (h.endDate # NoDate /\ ~ValidDate(h.endDate))
    THEN <<h>>
    ELSE LET start == parse_date(h.startDate)
             end   == IF h.endDate # NoDate THEN parse_date(h.endDate) ELSE start
             name_lower  == Lower(h.name)
             notes_lower == Lower(h.notes)
         IN IF /\ Contains(name_lower, k_columbus) \/ Contains(name_lower, k_indigenous)
               /\ ~Contains(notes_lower, k_shaded)
               /\ ~Contains(notes_lower, k_gray)
               /\ ~Contains(notes_lower, k_orange)
            THEN <<>>
            ELSE << [h EXCEPT !.endDate = strftime(TrimWeekend(end, start))] >>

RECURSIVE Validate(_)
Validate(hs) ==
    IF hs = <<>> THEN <<>> ELSE ValidateOne(Head(hs)) \o Validate(Tail(hs))

(***************************************************************************)
(* normalize_georgia_calendar                                              *)
(***************************************************************************)
\* the loop's step without the branch for the first days of January
NormalizeStepDecemberOnly(st, h) ==
    LET start == parse_date(h.startDate)
        end   == parse_date(h.endDate)
    IN IF start = None THEN st
       ELSE IF Month(start) = 12 \/ (Month(start) = 11 /\ end # None /\ Month(end) = 12)
       THEN IF st.cb = <<>>
            THEN [st EXCEPT !.cb = << [holiday |-> [h EXCEPT !.name = n_Christmas_Break],
                                       start |-> start, end |-> end] >>]
            ELSE IF end # None /\ end > st.cb[1].end
                 THEN [st EXCEPT !.cb[1].holiday.endDate = h.endDate, !.cb[1].end = end]
                 ELSE st
       ELSE IF Month(start) = 2
       THEN IF Contains(Lower(h.name), k_president)
            THEN [st EXCEPT !.pd = << [start |-> start, end |-> end] >>]
            ELSE [st EXCEPT !.wbc = Append(st.wbc, [start |-> start, end |-> end])]
       ELSE [st EXCEPT !.normalized = Append(st.normalized, h)]

\* the loop over holidays; cb is christmas_break, wbc the winter_break_candidates
\* and pd presidents_day, each kept with its parsed _start and _end
NormalizeStep(st, h) ==
    LET start == parse_date(h.startDate)
        end   == parse_date(h.endDate)
    IN IF start = None THEN st
       ELSE IF Month(start) = 12 \/ (Month(start) = 11 /\ end # None /\ Month(end) = 12)
       THEN IF st.cb = <<>>
            THEN [st EXCEPT !.cb = << [holiday |-> [h EXCEPT !.name = n_Christmas_Break],
                                       start |-> start, end |-> end] >>]
            ELSE IF end # None /\ end > st.cb[1].end
                 THEN [st EXCEPT !.cb[1].holiday.endDate = h.endDate, !.cb[1].end = end]
                 ELSE st
       ELSE IF /\ Month(start) = 1 /\ Day(start) <= 10
               /\ st.cb # <<>>
               /\ start - st.cb[1].end <= 5
       THEN IF end # None /\ end > st.cb[1].end
            THEN [st EXCEPT !.cb[1].holiday.endDate = h.endDate, !.cb[1].end = end]
            ELSE IF start > st.cb[1].end
                 THEN [st EXCEPT
                         !.cb[1].holiday.endDate =
                             IF h.endDate # NoDate THEN h.endDate ELSE h.startDate,
                         !.cb[1].end = IF end # None THEN end ELSE start]
                 ELSE st
       ELSE IF Month(start) = 2
       THEN IF Contains(Lower(h.name), k_president)
            THEN [st EXCEPT !.pd = << [start |-> start, end |-> end] >>]
            ELSE [st EXCEPT !.wbc = Append(st.wbc, [start |-> start, end |-> end])]
       ELSE [st EXCEPT !.normalized = Append(st.normalized, h)]

RECURSIVE NormalizeLoop(_, _)
NormalizeLoop(st, hs) ==
    IF hs = <<>> THEN st ELSE NormalizeLoop(NormalizeStep(st, Head(hs)), Tail(hs))

\* the Winter Break entries built from the February ranges, sorted by start
RECURSIVE FebruaryMerge(_, _, _, _)
FebruaryMerge(ranges, merged_start, merged_end, last_notes) ==
    IF ranges = <<>>
    THEN << Holiday(n_Winter_Break, strftime(merged_start), strftime(merged_end),
                    last_notes) >>
    ELSE LET start == ranges[1].start
             end   == IF ranges[1].end # None THEN ranges[1].end ELSE start
         IN IF start - merged_end <= 3
            THEN FebruaryMerge(Tail(ranges), merged_start, Max(merged_end, end), last_notes)
            ELSE << Holiday(n_Winter_Break, strftime(merged_start), strftime(merged_end),
                            t_Merged_February) >>
                 \o FebruaryMerge(Tail(ranges), start, end, last_notes)

\* a variant of Deduplicate that keeps every entry
DeduplicateNothing(hs) == hs

\* drop every later entry with an earlier entry's (startDate, endDate, name)
RECURSIVE Deduplicate(_)
Deduplicate(hs) ==
    IF hs = <<>> THEN <<>>
    ELSE LET rest == Deduplicate(SubSeq(hs, 1, Len(hs) - 1))
             h    == hs[Len(hs)]
         IN IF \E i \in DOMAIN rest :
                  /\ rest[i].startDate = h.startDate
                  /\ rest[i].endDate = h.endDate
                  /\ rest[i].name = h.name
            THEN rest ELSE Append(rest, h)

\* list.sort(key=lambda x: x.get('startDate', '')): a stable sort on the string
RECURSIVE SortByStartDate(_)
SortByStartDate(hs) ==
    IF hs = <<>> THEN <<>>
    ELSE LET rest == SortByStartDate(SubSeq(hs, 1, Len(hs) - 1))
             x    == hs[Len(hs)]
             k    == Cardinality({i \in DOMAIN rest : ~StrLess(x.startDate, rest[i].startDate)})
         IN SubSeq(rest, 1, k) \o <<x>> \o SubSeq(rest, k + 1, Len(rest))

normalize_georgia_calendar(hs) ==
    IF hs = <<>> THEN hs
    ELSE LET st == NormalizeLoop([normalized |-> <<>>, cb |-> <<>>, wbc |-> <<>>,
                                  pd |-> <<>>], hs)
             with_christmas ==
                 st.normalized \o (IF st.cb = <<>> THEN <<>> ELSE <<st.cb[1].holiday>>)
             all_feb_dates == SortByStart(st.pd \o st.wbc)
             february ==
                 IF all_feb_dates = <<>> THEN <<>>
                 ELSE FebruaryMerge(Tail(all_feb_dates), all_feb_dates[1].start,
                                    IF all_feb_dates[1].end # None
                                    THEN all_feb_dates[1].end ELSE all_feb_dates[1].start,
                                    IF st.pd # <<>> THEN t_Merged_February ELSE <<>>)
         IN SortByStartDate(Deduplicate(with_christmas \o february))

(***************************************************************************)
(* infer_missing_years: calendar rules                                     *)
(***************************************************************************)
\* days between the effective date and calendar_range_end
InferWindowDays == 731

\* get_nth_weekday_of_month with the weekday difference taken the other way
get_nth_weekday_of_month_reversed(year, month, weekday, n) ==
    LET first_weekday    == Weekday(Ord(year, month, 1))
        days_to_target   == (first_weekday - weekday) % 7
        first_occurrence == 1 + days_to_target
        target_day       == first_occurrence + (n - 1) * 7
    IN IF target_day > DaysInMonth(year, month) THEN None
       ELSE Ord(year, month, target_day)

\* the nth occurrence of a weekday in a month, or None
get_nth_weekday_of_month(year, month, weekday, n) ==
    LET first_weekday    == Weekday(Ord(year, month, 1))
        days_to_target   == (weekday - first_weekday) % 7
        first_occurrence == 1 + days_to_target
        target_day       == first_occurrence + (n - 1) * 7
    IN IF target_day > DaysInMonth(year, month) THEN None
       ELSE Ord(year, month, target_day)

\* which full week (Monday to Friday inside the month) the date dt falls in
get_nth_full_week(dt) ==
    LET Nth(weeks_from_first) ==
            IF weeks_from_first >= 0 THEN weeks_from_first + 1 ELSE 1
        InWeek(first_full_week_monday, week_start) ==
            Nth((week_start - first_full_week_monday) \div 7)
        FromMonday(first_monday, last_day, week_start) ==
            InWeek(IF first_monday + 4 > last_day THEN first_monday + 7
                   ELSE first_monday,
                   IF week_start < 1 THEN 1 ELSE week_start)
        FromFirstDay(first_weekday, last_day) ==
            FromMonday(1 + (IF first_weekday # 0 THEN (7 - first_weekday) % 7 ELSE 0),
                       last_day, Day(dt) - Weekday(dt))
        InMonth(year, month) ==
            FromFirstDay(Weekday(Ord(year, month, 1)), DaysInMonth(year, month))
    IN InMonth(Year(dt), Month(dt))

\* the last occurrence of a weekday in a month
get_last_weekday_of_month(year, month, weekday) ==
    LET Back(last_date) == last_date - ((Weekday(last_date) - weekday) % 7)
    IN Back(Ord(year, month, DaysInMonth(year, month)))

\* get_nth_full_week_start counting the weeks from zero
get_nth_full_week_start_from_zero(year, month, nth_full_week) ==
    LET Pick3(first_full_week_monday, target_monday, last_day) ==
            IF target_monday < 1 \/ target_monday > last_day
            THEN Ord(year, month, first_full_week_monday)
            ELSE Ord(year, month, target_monday)
        FromFull(first_full_week_monday, last_day) ==
            Pick3(first_full_week_monday,
                  first_full_week_monday + nth_full_week * 7, last_day)
        FromMonday(first_monday, last_day) ==
            FromFull(IF first_monday + 4 > last_day THEN first_monday + 7
                     ELSE first_monday, last_day)
        FromFirstDay(first_weekday) ==
            FromMonday(IF first_weekday = 0 THEN 1 ELSE 1 + (7 - first_weekday),
                       DaysInMonth(year, month))
    IN FromFirstDay(Weekday(Ord(year, month, 1)))

\* the Monday of the nth full week of a month
get_nth_full_week_start(year, month, nth_full_week) ==
    LET Pick3(first_full_week_monday, target_monday, last_day) ==
            IF target_monday < 1 \/ target_monday > last_day
            THEN Ord(year, month, first_full_week_monday)
            ELSE Ord(year, month, target_monday)
        Target(first_full_week_monday, target_monday, last_day) ==
            Pick3(first_full_week_monday,
                  IF target_monday > last_day
                  THEN first_full_week_monday + Max(0, nth_full_week - 2) * 7
                  ELSE target_monday,
                  last_day)
        FromFull(first_full_week_monday, last_day) ==
            Target(first_full_week_monday,
                   first_full_week_monday + (nth_full_week - 1) * 7, last_day)
        FromMonday(first_monday, last_day) ==
            FromFull(IF first_monday + 4 > last_day THEN first_monday + 7
                     ELSE first_monday, last_day)
        FromFirstDay(first_weekday) ==
            FromMonday(IF first_weekday = 0 THEN 1 ELSE 1 + (7 - first_weekday),
                       DaysInMonth(year, month))
    IN FromFirstDay(Weekday(Ord(year, month, 1)))

normalize_name(name) == RemoveChar(RemoveChar(Strip(Lower(name)), "'"), "'")

\* the start a federal rule gives the normalized name in a year, or None
get_federal_holiday_date(name, year) ==
    LET thanksgiving == get_nth_weekday_of_month(year, 11, 3, 4)
    IN  IF Contains(name, k_labor) /\ Contains(name, k_day)
        THEN get_nth_weekday_of_month(year, 9, 0, 1)
        ELSE IF Contains(name, k_thanksgiving) /\ thanksgiving # None
        THEN thanksgiving
        ELSE IF Contains(name, k_mlk) \/ Contains(name, <<"m","a","r","t","i","n"," ","l","u","t","h","e","r"," ","k","i","n","g">>)
        THEN get_nth_weekday_of_month(year, 1, 0, 3)
        ELSE IF Contains(name, k_presidents) \/ Contains(name, k_president)
        THEN get_nth_weekday_of_month(year, 2, 0, 3)
        ELSE IF Contains(name, k_memorial) /\ Contains(name, k_day)
        THEN get_last_weekday_of_month(year, 5, 0)
        ELSE IF \/ Contains(name, k_independence)
                \/ Contains(name, k_july_4)
                \/ Contains(name, k_4th_of_july)
        THEN Ord(year, 7, 4)
        ELSE None

(***************************************************************************)
(* infer_missing_years: one candidate                                      *)
(***************************************************************************)
\* a variant of infer_christmas_break that never moves the end to January 1
infer_christmas_break_unforced(target_year, source_start, source_end) ==
    LET From(start) == <<start, start + (source_end - source_start)>>
        Back(start) == IF Day(start) > 25 THEN start - 7 ELSE start
        Shift(start) ==
            IF Weekday(start) # Weekday(source_start)
            THEN From(Back(start + (Weekday(source_start) - Weekday(start))))
            ELSE From(start)
    IN Shift(Ord(target_year, 12, Day(source_start)))

\* <<start, end>> of the Christmas Break inferred from the source
infer_christmas_break(target_year, source_start, source_end) ==
    LET Ends(start, end, new_years_day) ==
            <<start, IF Month(source_end) = 1 /\ end < new_years_day
                     THEN new_years_day ELSE end>>
        From(start) ==
            Ends(start, start + (source_end - source_start),
                 Ord(target_year + 1, 1, 1))
        Back(start) == IF Day(start) > 25 THEN start - 7 ELSE start
        Shift(start) ==
            IF Weekday(start) # Weekday(source_start)
            THEN From(Back(start + (Weekday(source_start) - Weekday(start))))
            ELSE From(start)
    IN Shift(Ord(target_year, 12, Day(source_start)))

\* <<start, end>> of the break placed in the source's nth full week
infer_break_by_pattern(target_year, source_start, source_end) ==
    LET Ends(inferred_start) ==
            <<inferred_start, inferred_start + (source_end - source_start)>>
        nth_full_week == get_nth_full_week(source_start)
        week_monday   == get_nth_full_week_start(target_year, Month(source_start),
                                                 nth_full_week)
    IN Ends(week_monday + Weekday(source_start))

\* <<inferred_start, inferred_end>> before truncation
Candidate(holiday_name, target_year, source_start, source_end) ==
    LET Ends(inferred_start) ==
            <<inferred_start, inferred_start + (source_end - source_start)>>
        Federal(federal_start) ==
            IF federal_start # None
            THEN IF Contains(holiday_name, k_thanksgiving)
                 THEN IF Weekday(source_start) = 0
                      THEN Ends(federal_start - 3)
                      ELSE Ends(federal_start - ((3 - Weekday(source_start)) % 7))
                 ELSE Ends(federal_start)
            ELSE IF \/ Contains(holiday_name, k_christmas)
                    \/ Contains(holiday_name, k_winter) /\ Month(source_start) = 12
            THEN infer_christmas_break(target_year, source_start, source_end)
            ELSE infer_break_by_pattern(target_year, source_start, source_end)
    IN Federal(get_federal_holiday_date(holiday_name, target_year))

\* a variant of the truncation tests that also drops a candidate starting
\* before the effective date
KeptFromToday(c, now) == ~(c[1] < now) /\ ~(c[1] > now + InferWindowDays)

\* the truncation tests: the candidate is appended
Kept(c, now) == ~(c[2] < now) /\ ~(c[1] > now + InferWindowDays)

InferredNotes(source_year) == t_Inferred_from \o ToStr(source_year) \o t_calendar

\* a variant of InferOne that records the target year as sourceYear
InferOneTargetYear(holiday_name, source_holiday, target_year, now) ==
    LET Appended(c) ==
            IF ~Kept(c, now) THEN <<>>
            ELSE << [name       |-> source_holiday.name,
                     startDate  |-> strftime(c[1]),
                     endDate    |-> strftime(Min(c[2], now + InferWindowDays)),
                     isOmitted  |-> FALSE,
                     notes      |-> InferredNotes(target_year),
                     inferred   |-> <<TRUE>>,
                     sourceYear |-> <<target_year>>] >>
        From(source_start, source_end) ==
            Appended(Candidate(holiday_name, target_year, source_start, source_end))
    IN From(parse_date(source_holiday.startDate), parse_date(source_holiday.endDate))

\* the holiday appended for one (name, target year), or nothing
InferOne(holiday_name, source_holiday, target_year, now) ==
    LET Appended(c, source_year) ==
            IF ~Kept(c, now) THEN <<>>
            ELSE << [name       |-> source_holiday.name,
                     startDate  |-> strftime(c[1]),
                     endDate    |-> strftime(Min(c[2], now + InferWindowDays)),
                     isOmitted  |-> FALSE,
                     notes      |-> InferredNotes(source_year),
                     inferred   |-> <<TRUE>>,
                     sourceYear |-> <<source_year>>] >>
        From(source_start, source_end) ==
            Appended(Candidate(holiday_name, target_year, source_start, source_end),
                     Year(source_start))
    IN From(parse_date(source_holiday.startDate), parse_date(source_holiday.endDate))

(***************************************************************************)
(* infer_missing_years: the loops                                          *)
(***************************************************************************)
\* the keys of holidays_by_name_year after the first loop
NameYearKeys(hs) ==
    {<<normalize_name(hs[i].name), Year(parse_date(hs[i].startDate))>> :
        i \in {j \in DOMAIN hs : parse_date(hs[j].startDate) # None}}

\* unique_holidays: for each normalized name its first holiday, in list order
UniqueSources(hs) ==
    LET First(names) ==
            SelectSeq([i \in DOMAIN hs |-> <<i, hs[i]>>],
                      LAMBDA p : \A j \in 1..(p[1] - 1) : names[j] # names[p[1]])
    IN First([i \in DOMAIN hs |-> normalize_name(hs[i].name)] \o <<>>)

\* the holidays inferred from one source for the years first..last
RECURSIVE InferYears(_, _, _, _, _, _)
InferYears(holiday_name, source_holiday, keys, year, last, now) ==
    IF year > last THEN <<>>
    ELSE (IF /\ year # Year(parse_date(source_holiday.startDate))
             /\ <<holiday_name, year>> \notin keys
          THEN InferOne(holiday_name, source_holiday, year, now)
          ELSE <<>>)
         \o InferYears(holiday_name, source_holiday, keys, year + 1, last, now)

RECURSIVE InferSources(_, _, _)
InferSources(sources, keys, now) ==
    IF sources = <<>> THEN <<>>
    ELSE LET source_holiday == sources[1][2]
         IN (IF \/ parse_date(source_holiday.startDate) = None
                \/ parse_date(source_holiday.endDate) = None
                \/ source_holiday.isOmitted
             THEN <<>>
             ELSE InferYears(normalize_name(source_holiday.name), source_holiday, keys,
                             Year(now), Year(now + InferWindowDays), now))
            \o InferSources(Tail(sources), keys, now)

infer_missing_years(hs, now) ==
    IF hs = <<>> THEN hs
    ELSE IF \A i \in DOMAIN hs :
               parse_date(hs[i].startDate) = None /\ parse_date(hs[i].endDate) = None
    THEN hs
    ELSE SortByStartDate([i \in DOMAIN hs |-> [hs[i] EXCEPT !.inferred = <<FALSE>>]]
                         \o InferSources(UniqueSources(hs), NameYearKeys(hs), now))

(***************************************************************************)
(* Inputs: labels, raw entries, verified holidays, effective dates         *)
(***************************************************************************)
l_Teacher_Workday == <<"T","e","a","c","h","e","r"," ","W","o","r","k","d","a","y">>

l_Presidents_Day_Holiday == <<"P","r","e","s","i","d","e","n","t","s"," ","D","a","y"," ","H","o","l","i","d","a","y">>

l_Student_Holiday == <<"S","t","u","d","e","n","t"," ","H","o","l","i","d","a","y">>

l_Christmas_Break == <<"C","h","r","i","s","t","m","a","s"," ","B","r","e","a","k">>

l_Spring_Break == <<"S","p","r","i","n","g"," ","B","r","e","a","k">>

l_Early_Release == <<"E","a","r","l","y"," ","R","e","l","e","a","s","e">>

l_Fall_Break == <<"F","a","l","l"," ","B","r","e","a","k">>

l_MLK_Holiday == <<"M","L","K"," ","H","o","l","i","d","a","y">>

l_Thanksgiving_Holiday == <<"T","h","a","n","k","s","g","i","v","i","n","g"," ","H","o","l","i","d","a","y">>

l_Winter_Break == <<"W","i","n","t","e","r"," ","B","r","e","a","k">>

sy_2025_2026 == <<"2","0","2","5","-","2","0","2","6">>

Raw(date, endDate, label, category, off) ==
    [date |-> date, endDate |-> endDate, label |-> label, category |-> category,
     isStudentDayOff |-> off, notes |-> <<>>]

\* raw entries as the extraction pass may return them, in no particular order
RawPool ==
    << Raw(D(2026, 2, 13), NoDate, l_Teacher_Workday, "teacher_day", <<TRUE>>),
       Raw(D(2026, 2, 16), D(2026, 2, 17), l_Presidents_Day_Holiday, "holiday", <<TRUE>>),
       Raw(D(2026, 1, 2), NoDate, l_Student_Holiday, "student_holiday", <<TRUE>>),
       Raw(D(2025, 12, 22), D(2025, 12, 31), l_Christmas_Break, "break", <<TRUE>>),
       Raw(D(2026, 2, 17), NoDate, l_Student_Holiday, "student_holiday", <<>>),
       Raw(D(2026, 3, 16), D(2026, 3, 15), l_Student_Holiday, "student_holiday", <<TRUE>>),
       Raw(D(2026, 3, 13), NoDate, l_Teacher_Workday, "teacher_day", <<FALSE>>),
       Raw(D(2026, 3, 12), D(2026, 3, 15), l_Spring_Break, "break", <<TRUE>>),
       Raw(D(2026, 3, 14), D(2026, 3, 15), l_Student_Holiday, "other", <<TRUE>>),
       Raw(D(2026, 3, 13), NoDate, l_Early_Release, "early_release", <<FALSE>>),
       Raw(D(2025, 10, 6), D(2025, 10, 10), l_Fall_Break, "break", <<TRUE>>),
       Raw(D(2026, 1, 19), D(2026, 1, 32), l_MLK_Holiday, "holiday", <<TRUE>>),
       Raw(D(2025, 11, 28), NoDate, l_Thanksgiving_Holiday, "holiday", <<TRUE>>),
       Raw(D(2026, 5, 22), D(2026, 5, 18), l_Student_Holiday, "student_holiday", <<TRUE>>),
       Raw(D(2026, 5, 22), D(2026, 5, 18), l_Student_Holiday, "student_holiday", <<TRUE>>),
       Raw(D(2026, 2, 16), D(2026, 2, 20), l_Winter_Break, "break", <<TRUE>>) >>

SchoolYears == {sy_2025_2026, <<>>}

\* verified holidays, sorted by startDate as get_verified_calendar_24_months does
VerifiedPool ==
    << Holiday(n_Labor_Day, D(2025, 9, 1), D(2025, 9, 1), <<>>),
       Holiday(n_Fall_Break, D(2025, 10, 6), D(2025, 10, 10), <<>>),
       Holiday(n_Thanksgiving_Break, D(2025, 11, 24), D(2025, 11, 28), <<>>),
       Holiday(n_Student_Holiday, D(2025, 12, 26), D(2025, 12, 26), <<>>),
       Holiday(n_MLK_Day, D(2026, 1, 19), D(2026, 1, 19), <<>>),
       Holiday(n_Presidents_Day, D(2026, 2, 16), D(2026, 2, 16), <<>>),
       Holiday(n_Spring_Break, D(2026, 4, 6), D(2026, 4, 10), <<>>),
       Holiday(n_Memorial_Day, D(2026, 5, 25), D(2026, 5, 25), <<>>),
       Holiday(n_Independence_Day, D(2026, 7, 3), D(2026, 7, 3), <<>>),
       Holiday(n_Fall_Break, D(2026, 9, 28), D(2026, 10, 2), <<>>),
       Holiday(n_Christmas_Break, D(2026, 12, 21), D(2027, 1, 1), <<>>) >>

\* the shaded February days extract_calendar_shading may report
ShadingPool == {{16}, {13, 16, 17}, {9, 10, 12}, {27, 28, 29}}

\* effective dates get_effective_date() may return
TodayPool ==
    {D(2025, 9, 1), D(2025, 10, 4), D(2025, 12, 16), D(2026, 1, 1)}

\* most raw entries in one upload
MaxRaw == 2

\* most holidays in one verified calendar
MaxVerified == 2

\* the subsequence of pool at the indexes S
SubPool(pool, S) == Items(Pick(pool, S))

(***************************************************************************)
(* extract_school_calendar                                                 *)
(***************************************************************************)
InitUpload ==
    /\ pc = "raw"
    /\ \E S \in SUBSET DOMAIN RawPool :
          Cardinality(S) <= MaxRaw /\ rawDates = SubPool(RawPool, S)
    /\ schoolYear \in SchoolYears
    /\ holidays = <<>>

InitVerified ==
    /\ pc = "verified"
    /\ rawDates = <<>>
    /\ schoolYear = <<>>
    /\ \E S \in SUBSET DOMAIN VerifiedPool :
          /\ S # {} /\ Cardinality(S) <= MaxVerified
          /\ holidays = SubPool(VerifiedPool, S)

Init ==
    /\ InitUpload \/ InitVerified
    /\ date_entries = <<>>
    /\ merged = <<>>
    /\ omitted = <<>>
    /\ before = <<>>
    /\ today = None

\* step "merge_normalize"
Merge ==
    /\ pc = "raw"
    /\ pc' = "merged"
    /\ date_entries' = ResolvedEntries(rawDates)
    /\ merged' = MergedRuns(date_entries')
    /\ holidays' \in MergeOutputs(date_entries', schoolYear)
    /\ omitted' = IF date_entries' = <<>> THEN <<>> ELSE Omitted(holidays')
    /\ before' = holidays
    /\ UNCHANGED <<rawDates, schoolYear, today>>

\* analyze_school_calendar_two_pass, after the merge, when the PDF has shading
AddShading ==
    /\ pc = "merged"
    /\ pc' = "shaded"
    /\ \E days \in ShadingPool :
          holidays' = add_missing_breaks_from_shading(holidays, schoolYear, days)
    /\ before' = holidays
    /\ UNCHANGED <<rawDates, schoolYear, date_entries, merged, omitted, today>>

\* step "validate_filter"
ValidateFilter ==
    /\ pc \in {"merged", "shaded"}
    /\ pc' = "validated"
    /\ holidays' = Validate(holidays)
    /\ before' = holidays
    /\ UNCHANGED <<rawDates, schoolYear, date_entries, merged, omitted, today>>

\* step "georgia_normalize"
GeorgiaNormalize ==
    /\ pc = "validated"
    /\ pc' = "normalized"
    /\ holidays' = normalize_georgia_calendar(holidays)
    /\ before' = holidays
    /\ UNCHANGED <<rawDates, schoolYear, date_entries, merged, omitted, today>>

\* step "infer_dates", and the inference run on a verified calendar
InferDates ==
    /\ pc \in {"normalized", "verified"}
    /\ pc' = "inferred"
    /\ \E t \in TodayPool : today' = parse_date(t)
    /\ holidays' = infer_missing_years(holidays, today')
    /\ before' = holidays
    /\ UNCHANGED <<rawDates, schoolYear, date_entries, merged, omitted>>

\* infer_missing_years run again on its own output, same effective date
InferAgain ==
    /\ pc = "inferred"
    /\ pc' = "reinferred"
    /\ holidays' = infer_missing_years(holidays, today)
    /\ before' = holidays
    /\ UNCHANGED <<rawDates, schoolYear, date_entries, merged, omitted, today>>

Next == Merge \/ AddShading \/ ValidateFilter \/ GeorgiaNormalize \/ InferDates \/ InferAgain

Spec == Init /\ [][Next]_vars

(***************************************************************************)
(* validate_and_filter_calendar_dates on any calendar result               *)
(***************************************************************************)
l_Columbus_Day == <<"C","o","l","u","m","b","u","s"," ","D","a","y">>

\* most holidays in one calendar result handed to the validator
MaxValidated == 3

\* holidays a caller may hand over: well-formed ones, ones whose date strings
\* strptime rejects ('2026-02-30', '2026-13-01'), one without startDate, one
\* without endDate
ValidatorPool ==
    << Holiday(n_Labor_Day, D(2026, 9, 7), D(2026, 9, 7), <<>>),
       Holiday(n_Spring_Break, D(2026, 4, 6), D(2026, 4, 12), <<>>),
       Holiday(n_Fall_Break, D(2026, 2, 30), D(2026, 3, 6), <<>>),
       Holiday(n_Spring_Break, D(2026, 4, 6), D(2026, 13, 1), <<>>),
       Holiday(l_Columbus_Day, D(2026, 10, 12), D(2026, 10, 12), <<>>),
       Holiday(l_Columbus_Day, D(2026, 10, 12), D(2026, 10, 32), <<>>),
       Holiday(n_Labor_Day, NoDate, D(2026, 9, 7), <<>>),
       Holiday(n_Fall_Break, D(2026, 10, 10), NoDate, <<>>) >>

ValidatorInit ==
    /\ pc = "merged"
    /\ \E S \in SUBSET DOMAIN ValidatorPool :
          Cardinality(S) <= MaxValidated /\ holidays = SubPool(ValidatorPool, S)
    /\ rawDates = <<>>
    /\ schoolYear = <<>>
    /\ date_entries = <<>>
    /\ merged = <<>>
    /\ omitted = <<>>
    /\ before = <<>>
    /\ today = None

ValidatorSpec == ValidatorInit /\ [][ValidateFilter]_vars

(***************************************************************************)
(* normalize_georgia_calendar on any calendar result                       *)
(***************************************************************************)
\* most holidays in one calendar result given to the normalizer
MaxNormalized == 3

\* holidays as the validator returns them, in the order of their startDate
NormalizerPool ==
    << Holiday(l_Student_Holiday, D(2025, 12, 5), D(2025, 12, 5), <<>>),
       Holiday(n_Christmas_Break, D(2025, 12, 22), D(2025, 12, 26), <<>>),
       Holiday(n_Christmas_Break, D(2025, 12, 22), D(2025, 12, 31), <<>>),
       Holiday(l_Student_Holiday, D(2026, 1, 2), D(2026, 1, 2), <<>>),
       Holiday(l_Teacher_Workday, D(2026, 1, 5), D(2026, 1, 6), <<>>),
       Holiday(n_MLK_Day, D(2026, 1, 19), D(2026, 1, 19), <<>>),
       Holiday(n_Winter_Break, D(2026, 2, 16), D(2026, 2, 20), <<>>) >>

NormalizerInit ==
    /\ pc = "validated"
    /\ \E S \in SUBSET DOMAIN NormalizerPool :
          Cardinality(S) <= MaxNormalized /\ holidays = SubPool(NormalizerPool, S)
    /\ rawDates = <<>>
    /\ schoolYear = <<>>
    /\ date_entries = <<>>
    /\ merged = <<>>
    /\ omitted = <<>>
    /\ before = <<>>
    /\ today = None

NormalizerSpec == NormalizerInit /\ [][GeorgiaNormalize]_vars

(***************************************************************************)
(* extract_school_calendar on uploads of the consolidated weeks            *)
(***************************************************************************)
l_Indigenous_Peoples_Day == <<"I","n","d","i","g","e","n","o","u","s"," ","P","e","o","p","l","e","s","'"," ","D","a","y">>

\* raw entries of October, November and February as the extraction pass may
\* return them
FallPool ==
    << Raw(D(2025, 10, 10), NoDate, l_Teacher_Workday, "teacher_day", <<TRUE>>),
       Raw(D(2025, 10, 13), NoDate, l_Columbus_Day, "holiday", <<TRUE>>),
       [Raw(D(2025, 11, 3), NoDate, l_Indigenous_Peoples_Day, "holiday", <<TRUE>>)
          EXCEPT !.notes = <<"N","o"," ","S","c","h","o","o","l">>],
       Raw(D(2025, 11, 24), NoDate, l_Student_Holiday, "student_holiday", <<TRUE>>),
       Raw(D(2025, 11, 26), NoDate, l_Teacher_Workday, "teacher_day", <<TRUE>>),
       Raw(D(2025, 11, 27), D(2025, 11, 28), l_Thanksgiving_Holiday, "holiday", <<TRUE>>),
       Raw(D(2026, 2, 16), NoDate, l_Presidents_Day_Holiday, "holiday", <<TRUE>>),
       Raw(D(2026, 2, 19), D(2026, 2, 22), l_Student_Holiday, "student_holiday", <<TRUE>>) >>

InitFall ==
    /\ pc = "raw"
    /\ \E S \in SUBSET DOMAIN FallPool :
          Cardinality(S) <= MaxRaw /\ rawDates = SubPool(FallPool, S)
    /\ schoolYear \in SchoolYears
    /\ holidays = <<>>
    /\ date_entries = <<>>
    /\ merged = <<>>
    /\ omitted = <<>>
    /\ before = <<>>
    /\ today = None

FallSpec == InitFall /\ [][Next]_vars

(***************************************************************************)
(* Properties                                                              *)
(***************************************************************************)
\* how many holidays of hs carry the normalized name and start in the year
NameYearCount(hs, name, year) ==
    Cardinality({i \in DOMAIN hs :
                    normalize_name(hs[i].name) = name /\ hs[i].startDate.y = year})

\* C1: re-running infer_missing_years on its own output with the same
\* effective date adds nothing: for every (normalized name, start year) pair
\* the second run's list holds no more entries than the first run's list.
C1_RerunAddsNothing ==
    pc = "reinferred" =>
        \A i \in DOMAIN holidays :
            NameYearCount(holidays, normalize_name(holidays[i].name),
                          holidays[i].startDate.y)
              <= NameYearCount(before, normalize_name(holidays[i].name),
                               holidays[i].startDate.y)

\* C2: every range the merge loop produces has startDate <= endDate, for any
\* sequence of raw date entries.
C2_RunsStartBeforeEnd ==
    pc = "merged" => \A i \in DOMAIN merged : merged[i].start <= merged[i].end

\* the day lies inside the run
DayInRun(day, run) == run.start <= day /\ day <= run.end

\* the entry's [date, endDate] and the run's [start, end] share a day
Intersects(entry, run) == entry.start <= run.end /\ run.start <= entry.end

\* C3: every raw entry that survives day-off resolution is covered by exactly
\* one merged run: its [date, endDate] lies inside one run's [start, end] and
\* intersects no other run of the merge loop.
C3_EntryInExactlyOneRun ==
    pc = "merged" =>
        \A k \in DOMAIN date_entries :
            \E i \in DOMAIN merged :
                /\ DayInRun(date_entries[k].start, merged[i])
                /\ DayInRun(date_entries[k].end, merged[i])
                /\ \A j \in DOMAIN merged :
                      j # i => ~Intersects(date_entries[k], merged[j])

\* the merge loop took entry into the open run: no run was closed, the run
\* keeps its start and gains the entry's label
Joined(st, nx) ==
    /\ nx.merged = st.merged
    /\ nx.current[1].start = st.current[1].start
    /\ Len(nx.current[1].labels) = Len(st.current[1].labels) + 1

\* C4: weekend bridge: when the current run ends on a Friday and the next
\* day-off entry starts on the Monday three days later, the merger joins
\* them into one range that starts at the run's start and covers the Monday
\* entry.
C4_FridayMondayBridge ==
    pc = "merged" =>
        \A k \in 1..(Len(date_entries) - 1) :
            LET Bridged(st, entry, nx) ==
                    (/\ Weekday(st.current[1].end) = 4
                     /\ Weekday(entry.start) = 0
                     /\ entry.start = st.current[1].end + 3)
                    => /\ Joined(st, nx)
                       /\ DayInRun(entry.start, nx.current[1])
                       /\ DayInRun(entry.end, nx.current[1])
            IN Bridged(LoopState(date_entries, k), date_entries[k + 1],
                       LoopState(date_entries, k + 1))

\* C5: cross-month merge: when the current run ends on day >= 28 of a month
\* and the next day-off entry starts on day <= 5 of the following month with a
\* gap of at most 5 days, the merger joins them into one range; an entry
\* ending Dec 31 and an entry starting Jan 2 produce a single range.
C5_CrossMonthJoins ==
    pc = "merged" =>
        /\ \A k \in 1..(Len(date_entries) - 1) :
              LET Crossed(st, entry, nx) ==
                      (/\ Day(st.current[1].end) >= 28
                       /\ Day(entry.start) <= 5
                       /\ Month(entry.start) = (Month(st.current[1].end) % 12) + 1
                       /\ entry.start - st.current[1].end <= 5)
                      => Joined(st, nx)
              IN Crossed(LoopState(date_entries, k), date_entries[k + 1],
                         LoopState(date_entries, k + 1))
        /\ (/\ Len(date_entries) = 2
            /\ date_entries[1].end = Ord(2025, 12, 31)
            /\ date_entries[2].start = Ord(2026, 1, 2))
           => /\ Len(merged) = 1
              /\ merged[1].start = date_entries[1].start
              /\ merged[1].end = Max(date_entries[1].end, date_entries[2].end)

\* a run ending Dec 31 was open when an entry starting Jan 2 arrived, and
\* the loop produced one range
C5_Witness ==
    /\ pc = "merged"
    /\ Len(date_entries) = 2
    /\ date_entries[1].end = Ord(2025, 12, 31)
    /\ date_entries[2].start = Ord(2026, 1, 2)
    /\ Len(merged) = 1
    /\ merged[1].end = Ord(2026, 1, 2)

\* C6: Friday-to-Tuesday bridge: when the current run ends on a Friday and
\* the next day-off entry starts on the Tuesday of the following week, the
\* merger joins the two into one range.
C6_FridayTuesdayBridge ==
    pc = "merged" =>
        \A k \in 1..(Len(date_entries) - 1) :
            LET Bridged(st, entry, nx) ==
                    (/\ Weekday(st.current[1].end) = 4
                     /\ Weekday(entry.start) = 1
                     /\ entry.start = st.current[1].end + 4)
                    => Joined(st, nx)
            IN Bridged(LoopState(date_entries, k), date_entries[k + 1],
                       LoopState(date_entries, k + 1))

\* hs holds a holiday of that name over exactly the two dates
HasHoliday(hs, name, startDate, endDate) ==
    \E i \in DOMAIN hs :
        hs[i].name = name /\ hs[i].startDate = startDate /\ hs[i].endDate = endDate

\* C7: for the input [Teacher Workday 2026-02-13, Presidents Day Holiday
\* 2026-02-16 to 2026-02-17] the merger produces one range 2026-02-13 to
\* 2026-02-17, and the list returned after merge, validation and Georgia
\* normalization holds both a Winter Break and a Presidents Day over exactly
\* 2026-02-13 to 2026-02-17.
C7_FebruaryScenario ==
    (pc = "normalized" /\ rawDates = SubPool(RawPool, {1, 2})) =>
        /\ Len(merged) = 1
        /\ merged[1].start = Ord(2026, 2, 13)
        /\ merged[1].end = Ord(2026, 2, 17)
        /\ HasHoliday(holidays, n_Winter_Break, D(2026, 2, 13), D(2026, 2, 17))
        /\ HasHoliday(holidays, n_Presidents_Day, D(2026, 2, 13), D(2026, 2, 17))

\* the holidays of hs the validator retains, in order
Retained(hs) == SelectSeq(hs, LAMBDA h : ValidateOne(h) # <<>>)

\* the endDate the trimming rule asks for
TrimmedEnd(start, end) ==
    IF Weekday(end) < 5 THEN end
    ELSE IF end - (Weekday(end) - 4) < start THEN start
    ELSE end - (Weekday(end) - 4)

\* C8: after validate_and_filter_calendar_dates every retained holiday whose
\* input endDate fell on a Saturday or Sunday has its endDate moved back to
\* the preceding Friday, or to startDate when that Friday lies before
\* startDate; an endDate that is already a weekday is left as it was.
C8_WeekendTrimmed ==
    pc = "validated" =>
        /\ Len(holidays) = Len(Retained(before))
        /\ \A i \in DOMAIN holidays :
              LET Trimmed(input, output) ==
                      parse_date(output.endDate)
                        = TrimmedEnd(parse_date(input.startDate),
                                     parse_date(input.endDate))
              IN Trimmed(Retained(before)[i], holidays[i])

\* the date is the nth Monday of its month
NthMonday(date, n) ==
    Weekday(date) = 0 /\ Day(date) > 7 * (n - 1) /\ Day(date) <= 7 * n

\* the date is the last Monday of its month
LastMonday(date) == Weekday(date) = 0 /\ Month(date + 7) # Month(date)

\* the federal rule for a canonical name, stated on the start date
FederalRule(name, start) ==
    /\ name = n_Labor_Day => Month(start) = 9 /\ NthMonday(start, 1)
    /\ name = n_MLK_Day => Month(start) = 1 /\ NthMonday(start, 3)
    /\ name = n_Presidents_Day => Month(start) = 2 /\ NthMonday(start, 3)
    /\ name = n_Memorial_Day => Month(start) = 5 /\ LastMonday(start)
    /\ name = n_Independence_Day => Month(start) = 7 /\ Day(start) = 4

\* hs holds an entry of the name that starts in the year
StartsInYear(hs, name, year) ==
    \E i \in DOMAIN hs : hs[i].name = name /\ hs[i].startDate.y = year

\* C9: an entry inferred by infer_missing_years starts on the 1st Monday of
\* September for Labor Day, the 3rd Monday of January for MLK Day, the 3rd
\* Monday of February for Presidents Day, the last Monday of May for Memorial
\* Day and on July 4 for Independence Day, in a year other than the source's,
\* whatever the source's own date; a source MLK Day 2026-01-19 yields
\* 2027-01-18 when 2027 is a target year and that date is not before the
\* effective date.
C9_FederalRuleDates ==
    /\ pc \in {"inferred", "reinferred"} =>
          \A i \in DOMAIN holidays :
              holidays[i].inferred = <<TRUE>> =>
                 /\ FederalRule(holidays[i].name, parse_date(holidays[i].startDate))
                 /\ holidays[i].name \in {n_Labor_Day, n_MLK_Day, n_Presidents_Day,
                                          n_Memorial_Day, n_Independence_Day}
                       => holidays[i].sourceYear # <<holidays[i].startDate.y>>
    /\ (/\ pc = "inferred"
        /\ HasHoliday(before, n_MLK_Day, D(2026, 1, 19), D(2026, 1, 19))
        /\ ~StartsInYear(before, n_MLK_Day, 2027)
        /\ today <= Ord(2027, 1, 18)
        /\ Ord(2027, 1, 18) <= today + InferWindowDays)
       => \E i \in DOMAIN holidays :
             /\ holidays[i].name = n_MLK_Day
             /\ holidays[i].startDate = D(2027, 1, 18)
             /\ holidays[i].inferred = <<TRUE>>

\* inference ran on a list with MLK Day 2026-01-19 and Independence Day
\* 2026-07-03 and appended MLK Day 2027-01-18 and Independence Day 2027-07-04
C9_Witness ==
    /\ pc = "inferred"
    /\ HasHoliday(before, n_MLK_Day, D(2026, 1, 19), D(2026, 1, 19))
    /\ HasHoliday(before, n_Independence_Day, D(2026, 7, 3), D(2026, 7, 3))
    /\ HasHoliday(holidays, n_MLK_Day, D(2027, 1, 18), D(2027, 1, 18))
    /\ HasHoliday(holidays, n_Independence_Day, D(2027, 7, 4), D(2027, 7, 4))

\* the inferred Fall Breaks of the list
InferredFallBreaks(hs) ==
    {i \in DOMAIN hs : hs[i].name = n_Fall_Break /\ hs[i].inferred = <<TRUE>>}

\* the holiday starts on the Monday of the nth full week of October (a full
\* week has Monday to Friday inside the month)
InNthFullWeekOfOctober(h, n) ==
    LET Starts(start) ==
            /\ Month(start) = 10
            /\ NthMonday(start, n)
            /\ Day(start) + 4 <= DaysInMonth(Year(start), 10)
    IN Starts(parse_date(h.startDate))

\* end minus start, in days
Span(h) == parse_date(h.endDate) - parse_date(h.startDate)

\* C10 (amended): a source Fall Break 2025-10-06 to 2025-10-10 is the 1st
\* full week of October 2025 and is inferred, for a target year inside the
\* window, as a Fall Break in the 1st full week of October of that year
\* (2026-10-05 to 2026-10-09 for 2026), starting on a Monday and with the
\* same 4-day end-minus-start duration unless the end of the window cuts it.
C10_FirstFullWeek ==
    (pc = "inferred" /\ HasHoliday(before, n_Fall_Break, D(2025, 10, 6), D(2025, 10, 10))) =>
        /\ \A i \in InferredFallBreaks(holidays) :
              /\ InNthFullWeekOfOctober(holidays[i], 1)
              /\ \/ Span(holidays[i]) = 4
                 \/ parse_date(holidays[i].endDate) = today + InferWindowDays
        /\ (/\ today <= Ord(2026, 10, 9)
            /\ Ord(2026, 10, 9) <= today + InferWindowDays
            /\ ~StartsInYear(before, n_Fall_Break, 2026))
           => \E i \in InferredFallBreaks(holidays) :
                 /\ holidays[i].startDate = D(2026, 10, 5)
                 /\ holidays[i].endDate = D(2026, 10, 9)

\* inference ran on a list with Fall Break 2025-10-06 to 2025-10-10 and
\* appended Fall Break 2026-10-05 to 2026-10-09
C10_Witness ==
    /\ pc = "inferred"
    /\ HasHoliday(before, n_Fall_Break, D(2025, 10, 6), D(2025, 10, 10))
    /\ \E i \in InferredFallBreaks(holidays) :
          /\ holidays[i].startDate = D(2026, 10, 5)
          /\ holidays[i].endDate = D(2026, 10, 9)

\* C10 (as stated): a source Fall Break 2025-10-06 to 2025-10-10 is inferred,
\* for a target year inside the window, as a Fall Break in the 2nd full week
\* of October of the target year (2026-10-12 to 2026-10-16 for 2026),
\* starting on a Monday and with the same 4-day duration.
C10_SecondFullWeek ==
    (pc = "inferred" /\ HasHoliday(before, n_Fall_Break, D(2025, 10, 6), D(2025, 10, 10))) =>
        /\ \A i \in InferredFallBreaks(holidays) :
              /\ InNthFullWeekOfOctober(holidays[i], 2)
              /\ Span(holidays[i]) = 4
        /\ \A i \in InferredFallBreaks(holidays) :
              holidays[i].startDate.y = 2026 =>
                 /\ holidays[i].startDate = D(2026, 10, 12)
                 /\ holidays[i].endDate = D(2026, 10, 16)

\* the indexes of the sources infer_missing_years infers from: the first
\* holiday of each normalized name, when it parses and is not omitted
SourceIndexes(hs) ==
    LET First(names) ==
            {i \in DOMAIN hs :
                /\ \A j \in 1..(i - 1) : names[j] # names[i]
                /\ parse_date(hs[i].startDate) # None
                /\ parse_date(hs[i].endDate) # None
                /\ ~hs[i].isOmitted}
    IN First([i \in DOMAIN hs |-> normalize_name(hs[i].name)] \o <<>>)

\* the target years of a source, given the keys of holidays_by_name_year
TargetYears(holiday_name, source_year, keys, now) ==
    {year \in Year(now)..Year(now + InferWindowDays) :
        year # source_year /\ <<holiday_name, year>> \notin keys}

\* the candidates computed from the list at the effective date, one for each
\* source and target year, with the dates as computed before truncation
Candidates(hs, now) ==
    LET Computed(i, holiday_name, year, source_start, source_end, c) ==
            [source       |-> hs[i],
             holiday_name |-> holiday_name,
             target_year  |-> year,
             source_start |-> source_start,
             source_end   |-> source_end,
             start        |-> c[1],
             end          |-> c[2]]
        For(i, holiday_name, source_start, source_end, keys) ==
            {Computed(i, holiday_name, year, source_start, source_end,
                      Candidate(holiday_name, year, source_start, source_end)) :
                year \in TargetYears(holiday_name, Year(source_start), keys, now)}
        All(keys) ==
            UNION {For(i, normalize_name(hs[i].name), parse_date(hs[i].startDate),
                       parse_date(hs[i].endDate), keys) : i \in SourceIndexes(hs)}
    IN All(NameYearKeys(hs))

\* the candidates that pass truncation and are appended
Synthesized(hs, now) ==
    {c \in Candidates(hs, now) : Kept(<<c.start, c.end>>, now)}

\* the candidate is appended to the list as an inferred holiday with the
\* computed start
Emitted(c, hs) ==
    \E i \in DOMAIN hs :
        /\ hs[i].inferred = <<TRUE>>
        /\ hs[i].name = c.source.name
        /\ hs[i].startDate = strftime(c.start)

\* the candidate is computed by infer_break_by_pattern
ByPattern(c) ==
    /\ get_federal_holiday_date(c.holiday_name, c.target_year) = None
    /\ ~Contains(c.holiday_name, k_christmas)
    /\ ~(Contains(c.holiday_name, k_winter) /\ Month(c.source_start) = 12)

\* the Mondays of the full weeks of the month: Monday to Friday in the month
FullWeekMondays(year, month) ==
    {Ord(year, month, d) : d \in {e \in 1..(DaysInMonth(year, month) - 4) :
                                    Weekday(Ord(year, month, e)) = 0}}

\* the ordinal, in the month of the date, of the full week whose Monday to
\* Sunday holds the date; 0 when that week is not a full week of the month
FullWeekOrdinal(date) ==
    LET In(monday, mondays) ==
            IF monday \in mondays
            THEN Cardinality({x \in mondays : x <= monday})
            ELSE 0
    IN In(date - Weekday(date), FullWeekMondays(Year(date), Month(date)))

\* C11: every entry inferred by pattern matching starts in the same ordinal
\* full week of the same month as its source's start, on the same weekday,
\* and its computed end-minus-start duration equals the source's.
C11_PatternTriple ==
    pc = "inferred" =>
        \A c \in Synthesized(before, today) :
            ByPattern(c) =>
               /\ Emitted(c, holidays)
               /\ Month(c.start) = Month(c.source_start)
               /\ FullWeekOrdinal(c.source_start) # 0
               /\ FullWeekOrdinal(c.start) = FullWeekOrdinal(c.source_start)
               /\ Weekday(c.start) = Weekday(c.source_start)
               /\ c.end - c.start = c.source_end - c.source_start

\* the last day of the inference window
WindowEnd(now) == now + InferWindowDays

\* the indexes of the entries the inference run appended to the list
InferredEntries(hs) == {i \in DOMAIN hs : hs[i].inferred = <<TRUE>>}

\* the inferred entry of the list with the candidate's name and start
EntryOf(c, hs) ==
    {i \in InferredEntries(hs) :
        hs[i].name = c.source.name /\ hs[i].startDate = strftime(c.start)}

\* C12: every entry synthesized by infer_missing_years has
\* effectiveDate <= endDate <= window end and startDate <= window end; a
\* candidate ending before the effective date or starting after the window
\* end is not emitted, an end past the window end is clamped to it, and a
\* candidate straddling the effective date keeps its computed startDate.
C12_Truncation ==
    pc = "inferred" =>
        LET Truncated(candidates) ==
                /\ Cardinality(InferredEntries(holidays))
                     = Cardinality({c \in candidates :
                                      today <= c.end /\ c.start <= WindowEnd(today)})
                /\ \A c \in candidates :
                      IF c.end < today \/ c.start > WindowEnd(today)
                      THEN EntryOf(c, holidays) = {}
                      ELSE \E i \in EntryOf(c, holidays) :
                              holidays[i].endDate
                                = strftime(Min(c.end, WindowEnd(today)))
        IN /\ \A i \in InferredEntries(holidays) :
                 /\ today <= parse_date(holidays[i].endDate)
                 /\ parse_date(holidays[i].endDate) <= WindowEnd(today)
                 /\ parse_date(holidays[i].startDate) <= WindowEnd(today)
           /\ Truncated(Candidates(before, today))

\* inference on a list with Christmas Break 2026-12-21 to 2027-01-01 at the
\* effective date 2025-12-16: the candidate 2025-12-15 to 2026-01-01
\* straddles the effective date and is appended with its start, the
\* candidate for 2027 starts after the window end and is left out
C12_Witness ==
    /\ pc = "inferred"
    /\ today = Ord(2025, 12, 16)
    /\ HasHoliday(holidays, n_Christmas_Break, D(2025, 12, 15), D(2026, 1, 1))
    /\ \E c \in Candidates(before, today) :
          c.start < today /\ today < c.end /\ Emitted(c, holidays)
    /\ \E c \in Candidates(before, today) :
          c.start > WindowEnd(today) /\ ~Emitted(c, holidays)

\* the 4th Thursday of November of the year
FourthThursday(year) ==
    CHOOSE date \in Ord(year, 11, 22)..Ord(year, 11, 28) : Weekday(date) = 3

\* the candidate is a Thanksgiving Break placed from the 4th Thursday
ByThanksgiving(c) == Contains(c.holiday_name, k_thanksgiving)

\* C13: for every target year Y the inferred Thanksgiving Break starts on the
\* weekday of the source's start, as many days from the 4th Thursday of
\* November Y as the source's start was from the 4th Thursday of November of
\* its own year, and its end-minus-start duration equals the source's.
C13_ThanksgivingOffset ==
    pc = "inferred" =>
        \A c \in Synthesized(before, today) :
            ByThanksgiving(c) =>
               /\ Emitted(c, holidays)
               /\ Weekday(c.start) = Weekday(c.source_start)
               /\ c.start - FourthThursday(c.target_year)
                    = c.source_start - FourthThursday(Year(c.source_start))
               /\ c.end - c.start = c.source_end - c.source_start

\* the candidate is computed by infer_christmas_break
ByChristmas(c) ==
    /\ get_federal_holiday_date(c.holiday_name, c.target_year) = None
    /\ \/ Contains(c.holiday_name, k_christmas)
       \/ Contains(c.holiday_name, k_winter) /\ Month(c.source_start) = 12

Occurrences(hs, h) == Cardinality({i \in DOMAIN hs : hs[i] = h})

\* the holiday as infer_missing_years returns an input: marked not inferred
AsInput(h) == [h EXCEPT !.inferred = <<FALSE>>]

\* C15: infer_missing_years only extends the list: every input holiday is in
\* the output with its name, startDate and endDate unchanged and marked
\* inferred=false, and every other output entry is marked inferred=true,
\* carries the name of its source holiday and has sourceYear equal to the
\* start year of that source.
C15_OnlyExtends ==
    (pc \in {"inferred", "reinferred"} /\ before # <<>>) =>
        /\ \A i \in DOMAIN before :
              /\ Occurrences(holidays, AsInput(before[i]))
                   = Occurrences([j \in DOMAIN before |-> AsInput(before[j])],
                                 AsInput(before[i]))
              /\ \E j \in DOMAIN holidays :
                    /\ holidays[j].inferred = <<FALSE>>
                    /\ holidays[j].name = before[i].name
                    /\ holidays[j].startDate = before[i].startDate
                    /\ holidays[j].endDate = before[i].endDate
        /\ Cardinality({j \in DOMAIN holidays : holidays[j].inferred = <<FALSE>>})
             = Len(before)
        /\ \A j \in DOMAIN holidays :
              \/ holidays[j].inferred = <<FALSE>>
              \/ /\ holidays[j].inferred = <<TRUE>>
                 /\ \E i \in SourceIndexes(before) :
                       /\ holidays[j].name = before[i].name
                       /\ holidays[j].sourceYear
                            = <<Year(parse_date(before[i].startDate))>>

\* inference on a list with Labor Day 2025-09-01 at the effective date
\* 2025-10-04 kept that entry, marked not inferred, and appended Labor Day
\* 2026-09-07 and 2027-09-06, marked inferred with sourceYear 2025
C15_Witness ==
    /\ pc = "inferred"
    /\ today = Ord(2025, 10, 4)
    /\ HasHoliday(before, n_Labor_Day, D(2025, 9, 1), D(2025, 9, 1))
    /\ \E j \in DOMAIN holidays :
          /\ holidays[j].name = n_Labor_Day
          /\ holidays[j].startDate = D(2025, 9, 1)
          /\ holidays[j].inferred = <<FALSE>>
    /\ \E j \in DOMAIN holidays :
          /\ holidays[j].name = n_Labor_Day
          /\ holidays[j].startDate = D(2026, 9, 7)
          /\ holidays[j].inferred = <<TRUE>>
          /\ holidays[j].sourceYear = <<2025>>
    /\ \E j \in DOMAIN holidays :
          /\ holidays[j].name = n_Labor_Day
          /\ holidays[j].startDate = D(2027, 9, 6)
          /\ holidays[j].inferred = <<TRUE>>

\* the calendar came from an upload: a verified calendar has no raw dates, no
\* school year and at least one holiday
Uploaded == rawDates # <<>> \/ schoolYear # <<>> \/ before = <<>>

\* the standard holiday types, Christmas Break apart, with no entry of that
\* name in the list
MissingStandard(hs) ==
    {standard_holidays[k] : k \in {j \in DOMAIN standard_holidays :
        /\ standard_holidays[j] # n_Christmas_Break
        /\ \A i \in DOMAIN hs : hs[i].name # standard_holidays[j]}}

\* C16: in the result handed on after shading synthesis, validation,
\* normalization and inference, omittedHolidays holds exactly the standard
\* holiday types other than Christmas Break that have no entry of that name
\* in the returned list, and never holds Christmas Break.
C16_OmittedExact ==
    (pc = "inferred" /\ Uploaded) =>
        /\ {omitted[k] : k \in DOMAIN omitted} = MissingStandard(holidays)
        /\ \A k \in DOMAIN omitted : omitted[k] # n_Christmas_Break

\* the date string a is not after the date string b
DateLeq(a, b) ==
    \/ a.y < b.y
    \/ a.y = b.y /\ a.m < b.m
    \/ a.y = b.y /\ a.m = b.m /\ a.d <= b.d

\* the list is ordered by startDate
OrderedByStart(hs) ==
    \A i, j \in DOMAIN hs : i < j => DateLeq(hs[i].startDate, hs[j].startDate)

\* C17: the list returned by normalize_georgia_calendar holds no two entries
\* with the same (startDate, endDate, name) and is ordered by non-decreasing
\* startDate.
C17_DeduplicatedSorted ==
    pc = "normalized" =>
        /\ \A i, j \in DOMAIN holidays :
              (/\ holidays[i].startDate = holidays[j].startDate
               /\ holidays[i].endDate = holidays[j].endDate
               /\ holidays[i].name = holidays[j].name) => i = j
        /\ OrderedByStart(holidays)

\* normalization of a list that holds Student Holiday 2026-05-22 to
\* 2026-05-18 twice and is not ordered by startDate returned that entry once,
\* in a list ordered by startDate
C17_Witness ==
    /\ pc = "normalized"
    /\ Cardinality({i \in DOMAIN before :
                      /\ before[i].name = l_Student_Holiday
                      /\ before[i].startDate = D(2026, 5, 22)
                      /\ before[i].endDate = D(2026, 5, 18)}) = 2
    /\ Cardinality({i \in DOMAIN holidays :
                      /\ holidays[i].name = l_Student_Holiday
                      /\ holidays[i].startDate = D(2026, 5, 22)
                      /\ holidays[i].endDate = D(2026, 5, 18)}) = 1
    /\ ~OrderedByStart(before)
    /\ Len(holidays) >= 2

\* the holiday is a range of February whose end is two days or more after its
\* start (is_multi_day) and that carries the name
FebruaryRange(h, name) ==
    /\ h.name = name
    /\ h.startDate.m = 2
    /\ Span(h) >= 2

\* the list holds the holiday's range under the other name
Twin(hs, h, name) ==
    \E i \in DOMAIN hs :
        /\ hs[i].name = name
        /\ hs[i].startDate = h.startDate
        /\ hs[i].endDate = h.endDate

\* C18: in the list returned by merge_and_normalize_breaks every multi-day
\* range starting in February and named "Winter Break" is accompanied by a
\* "Presidents Day" with the same startDate and endDate, and every multi-day
\* February "Presidents Day" by a "Winter Break" with the same dates.
C18_FebruaryDuplicate ==
    pc = "merged" =>
        \A i \in DOMAIN holidays :
            /\ FebruaryRange(holidays[i], n_Winter_Break)
                  => Twin(holidays, holidays[i], n_Presidents_Day)
            /\ FebruaryRange(holidays[i], n_Presidents_Day)
                  => Twin(holidays, holidays[i], n_Winter_Break)

\* datetime.strptime rejects the date string (a missing one is not parsed)
Malformed(s) == s # NoDate /\ ~ValidDate(s)

\* C19: a holiday whose startDate or endDate fails to parse is dropped from
\* the list validate_and_filter_calendar_dates returns, and every other
\* holiday is still validated and returned.
C19_MalformedDropped ==
    pc = "validated" =>
        /\ \A i \in DOMAIN holidays :
              ~Malformed(holidays[i].startDate) /\ ~Malformed(holidays[i].endDate)
        /\ holidays = Validate(SelectSeq(before,
              LAMBDA h : ~Malformed(h.startDate) /\ ~Malformed(h.endDate)))

\* the month of the source in the target year has fewer full weeks than the
\* ordinal get_nth_full_week gives the source's week
PatternFails(c) ==
    /\ ByPattern(c)
    /\ Cardinality(FullWeekMondays(c.target_year, Month(c.source_start)))
          < get_nth_full_week(c.source_start)

\* C20: when the source's Nth full week cannot be placed in the target
\* year's month, which has fewer than N full weeks, no entry is synthesized
\* for that name and target year, and the inference goes on for the other
\* target years and names and returns.
C20_PatternFailureSkipped ==
    pc = "inferred" =>
        \A c \in Candidates(before, today) :
            IF PatternFails(c)
            THEN EntryOf(c, holidays) = {}
            ELSE Kept(<<c.start, c.end>>, today) => EntryOf(c, holidays) # {}

\* the label names Columbus Day or Indigenous Peoples' Day
NamesColumbus(text) ==
    Contains(Lower(text), k_columbus) \/ Contains(Lower(text), k_indigenous)

\* a Columbus Day entry whose label and notes hold none of the closure words
UnsupportedColumbus(entry) ==
    /\ NamesColumbus(entry.label)
    /\ ~ContainsAny(Lower(entry.label) \o <<" ">> \o Lower(entry.notes), closure_indicators)

\* the notes hold one of the shading words the validator looks for
ShadingNoted(notes) ==
    \/ Contains(Lower(notes), k_shaded)
    \/ Contains(Lower(notes), k_gray)
    \/ Contains(Lower(notes), k_orange)

\* C21: a raw entry labelled Columbus Day or Indigenous Peoples' Day without
\* closure or shading evidence in its label and notes contributes to no
\* holiday: the day-off entries the merger works on are those of the upload
\* without such entries, and after the validator no holiday is left whose name
\* contains "columbus" or "indigenous" and whose notes lack shading evidence.
C21_ColumbusFiltered ==
    /\ pc # "raw" =>
          /\ date_entries
               = ResolvedEntries(SelectSeq(rawDates, LAMBDA e : ~UnsupportedColumbus(e)))
          /\ \A i \in DOMAIN rawDates :
                UnsupportedColumbus(rawDates[i]) =>
                   \A j \in DOMAIN date_entries : date_entries[j].label # rawDates[i].label
    /\ pc \in {"validated", "normalized", "inferred", "reinferred"} =>
          \A i \in DOMAIN holidays :
              NamesColumbus(holidays[i].name) => ShadingNoted(holidays[i].notes)

\* the upload held a Columbus Day without evidence, which the merger
\* discarded, and an Indigenous Peoples' Day noted "No School", which the
\* merger turned into a holiday and the validator removed
C21_Witness ==
    /\ pc = "validated"
    /\ \E i \in DOMAIN rawDates : UnsupportedColumbus(rawDates[i])
    /\ Len(date_entries) = 1
    /\ \E i \in DOMAIN before : NamesColumbus(before[i].name)
    /\ \A i \in DOMAIN holidays : ~NamesColumbus(holidays[i].name)

\* the taxonomy name of the first keyword rule the label matches, or nothing
KeywordName(label_lower, month) ==
    IF \/ Contains(label_lower, k_mlk)
       \/ Contains(label_lower, k_martin_luther)
       \/ Contains(label_lower, k_king)                   THEN <<n_MLK_Day>>
    ELSE IF Contains(label_lower, k_president)            THEN <<n_Presidents_Day>>
    ELSE IF Contains(label_lower, k_memorial)             THEN <<n_Memorial_Day>>
    ELSE IF Contains(label_lower, k_labor)                THEN <<n_Labor_Day>>
    ELSE IF Contains(label_lower, k_veteran)              THEN <<n_Veterans_Day>>
    ELSE IF Contains(label_lower, k_easter)               THEN <<n_Easter>>
    ELSE IF \/ Contains(label_lower, k_independence)
            \/ Contains(label_lower, k_july_4)
            \/ Contains(label_lower, k_4th_of_july)       THEN <<n_Independence_Day>>
    ELSE IF Contains(label_lower, k_thank)                THEN <<n_Thanksgiving_Break>>
    ELSE IF Contains(label_lower, k_christmas)            THEN <<n_Christmas_Break>>
    ELSE IF Contains(label_lower, k_spring) /\ Contains(label_lower, k_break)
                                                          THEN <<n_Spring_Break>>
    ELSE IF Contains(label_lower, k_fall) /\ Contains(label_lower, k_break)
                                                          THEN <<n_Fall_Break>>
    ELSE IF Contains(label_lower, k_winter) /\ Contains(label_lower, k_break)
         THEN (IF month = 12 THEN <<n_Christmas_Break>> ELSE <<n_Winter_Break>>)
    ELSE <<>>

\* the name the starting month alone gives a range of two days or more, or
\* nothing
MonthName(month) ==
    IF month = 12 THEN <<n_Christmas_Break>>
    ELSE IF month = 2 THEN <<n_Winter_Break>>
    ELSE IF month = 10 THEN <<n_Fall_Break>>
    ELSE IF month = 11 THEN <<n_Thanksgiving_Break>>
    ELSE IF month \in {3, 4} THEN <<n_Spring_Break>>
    ELSE <<>>

\* the name by keyword, else by month for a span of two days or more, else
\* the label itself
PriorityName(label, month, span) ==
    IF KeywordName(Lower(label), month) # <<>> THEN KeywordName(Lower(label), month)[1]
    ELSE IF span >= 2 /\ MonthName(month) # <<>> THEN MonthName(month)[1]
    ELSE IF label # <<>> THEN label
    ELSE n_Student_Holiday

\* C22: the name get_break_name gives a merged range is (a) the taxonomy name
\* of the first keyword its label matches ("winter"+"break": Christmas Break
\* for a December start, else Winter Break), else (b) for an end two days or
\* more after the start the name of the starting month, else (c) the label
\* itself, or "Student Holiday" for an empty label.
C22_NamingPriority ==
    pc = "merged" =>
        \A k \in DOMAIN merged :
            get_break_name(Month(merged[k].start), primary_label(merged[k].labels),
                           merged[k].end - merged[k].start >= 2)
              = PriorityName(primary_label(merged[k].labels), Month(merged[k].start),
                             merged[k].end - merged[k].start)

\* the holidays lists merge_and_normalize_breaks holds when it reaches the
\* November consolidation
BeforeNovember(entries, school_year) ==
    UNION {ConsolidateFebruary(RenameFallBreaks(h0), school_year) :
             h0 \in NamedLists(MergedRuns(entries))}

\* the ranges of the list that start in November of the year on day 22 or later
LateNovember(hs, year) ==
    {i \in DOMAIN hs : /\ hs[i].startDate.y = year
                       /\ hs[i].startDate.m = 11
                       /\ hs[i].startDate.d >= 22}

\* the 4th Thursday of November: the Thursday among November 22..28
Thanksgiving(year) ==
    CHOOSE d \in Ord(year, 11, 22)..Ord(year, 11, 28) : Weekday(d) = 3

\* the date moved back off a trailing Saturday or Sunday, not before first
OffWeekend(last, first) ==
    Max(first, IF Weekday(last) = 5 THEN last - 1
               ELSE IF Weekday(last) = 6 THEN last - 2 ELSE last)

\* earliest start and trimmed latest end of the ranges at idx
SpanStart(hs, idx) == MinOf({parse_date(hs[i].startDate) : i \in idx})

SpanEnd(hs, idx) ==
    OffWeekend(MaxOf({parse_date(hs[i].endDate) : i \in idx}), SpanStart(hs, idx))

\* the span is at least 3 days long and contains the 4th Thursday
SpanAccepted(hs, idx, year) ==
    /\ SpanEnd(hs, idx) - SpanStart(hs, idx) + 1 >= 3
    /\ SpanStart(hs, idx) <= Thanksgiving(year)
    /\ Thanksgiving(year) <= SpanEnd(hs, idx)

\* out holds h with its name and dates
Retains(out, h) ==
    \E j \in DOMAIN out : /\ out[j].name = h.name
                          /\ out[j].startDate = h.startDate
                          /\ out[j].endDate = h.endDate

\* what the claim says of the list `out` returned for the list `hs`
NovemberOutcome(hs, out, year) ==
    LET Outcome(nov) ==
            IF SpanAccepted(hs, nov, year)
            THEN /\ \A i \in DOMAIN hs \ nov : Retains(out, hs[i])
                 /\ Cardinality(LateNovember(out, year)) = 1
                 /\ \A j \in LateNovember(out, year) :
                       /\ out[j].name = n_Thanksgiving_Break
                       /\ parse_date(out[j].startDate) = SpanStart(hs, nov)
                       /\ parse_date(out[j].endDate) = SpanEnd(hs, nov)
            ELSE \A i \in DOMAIN hs : Retains(out, hs[i])
    IN Cardinality(LateNovember(hs, year)) >= 2 => Outcome(LateNovember(hs, year))

BeforeFebruary(entries) ==
    {RenameFallBreaks(h0) : h0 \in NamedLists(MergedRuns(entries))}

\* the ranges of the list that start in February of the year on day 14 or later
LateFebruary(hs, year) ==
    {i \in DOMAIN hs : /\ hs[i].startDate.y = year
                       /\ hs[i].startDate.m = 2
                       /\ hs[i].startDate.d >= 14}

\* what the claim says of the list `out` returned for the list `hs`
FebruaryOutcome(hs, out, year) ==
    LET Outcome(feb) ==
            /\ Cardinality(LateFebruary(out, year)) = 1
            /\ \A j \in LateFebruary(out, year) :
                  /\ out[j].name = n_Winter_Break
                  /\ parse_date(out[j].startDate) = SpanStart(hs, feb)
                  /\ parse_date(out[j].endDate) = SpanEnd(hs, feb)
    IN LateFebruary(hs, year) # {} => Outcome(LateFebruary(hs, year))

DecemberRanges(hs) == {i \in DOMAIN hs : hs[i].startDate.m = 12}

\* the end of the Christmas Break range: the latest end of the December ranges
ChristmasEnd(hs) == MaxOf({parse_date(hs[i].endDate) : i \in DecemberRanges(hs)})

\* the range starts on January 1..5 of the following year, at most 5 days
\* after the Christmas Break range that ends on December 28..31
FollowsChristmas(hs, h) ==
    /\ DecemberRanges(hs) # {}
    /\ Month(ChristmasEnd(hs)) = 12 /\ Day(ChristmasEnd(hs)) >= 28
    /\ h.startDate.m = 1 /\ h.startDate.d <= 5
    /\ h.startDate.y = Year(ChristmasEnd(hs)) + 1
    /\ parse_date(h.startDate) - ChristmasEnd(hs) <= 5

ChristmasBreaks(hs) == {i \in DOMAIN hs : hs[i].name = n_Christmas_Break}

CoveredBy(hs, d) ==
    \E i \in DOMAIN hs : parse_date(hs[i].startDate) <= d /\ d <= parse_date(hs[i].endDate)

\* the day lies between two ranges of the list that are at most 5 days apart
InShortGap(hs, d) ==
    \E i, j \in DOMAIN hs :
        /\ parse_date(hs[i].endDate) < d /\ d < parse_date(hs[j].startDate)
        /\ parse_date(hs[j].startDate) - parse_date(hs[i].endDate) <= 5

\* C30: every date from startDate to endDate of the Christmas Break that
\* normalize_georgia_calendar emits is covered by some input range or lies in
\* a gap of at most 5 days between two input ranges; two ranges starting in
\* December more than 5 days apart are not fused into one Christmas Break.
C30_ChristmasSpansNoSchoolDay ==
    pc = "normalized" =>
        \A j \in ChristmasBreaks(holidays) :
            \A d \in parse_date(holidays[j].startDate)..parse_date(holidays[j].endDate) :
                CoveredBy(before, d) \/ InShortGap(before, d)

\* a day-off entry consumed into the run covers the day
CoveredByEntry(entries, run, d) ==
    \E k \in DOMAIN entries :
        /\ DayInRun(entries[k].start, run)
        /\ entries[k].start <= d /\ d <= entries[k].end

\* the day lies in a gap the cross-month rule bridges: after an entry that ends
\* on day 28 or later and before one that starts on day 5 or earlier of
\* another month, at most 5 days later
InCrossMonthGap(entries, d) ==
    \E i, j \in DOMAIN entries :
        /\ entries[i].end < d /\ d < entries[j].start
        /\ Month(entries[i].end) # Month(entries[j].start)
        /\ Day(entries[i].end) >= 28 /\ Day(entries[j].start) <= 5
        /\ entries[j].start - entries[i].end <= 5

\* C26: every day inside a range produced by the merger is a no-school day:
\* each date d with start <= d <= end of a merged run is covered by one of the
\* day-off entries consumed into that run or is a Saturday or Sunday.
C26_RunDaysAreDaysOff ==
    pc = "merged" =>
        \A i \in DOMAIN merged :
            \A d \in merged[i].start..merged[i].end :
                CoveredByEntry(date_entries, merged[i], d) \/ Weekday(d) >= 5

\* C26 as amended: each date of a merged run is covered by a day-off entry
\* consumed into the run, is a Saturday or Sunday, or lies in a gap bridged by
\* the cross-month rule.
C26_RunDaysOffOrBridged ==
    pc = "merged" =>
        \A i \in DOMAIN merged :
            \A d \in merged[i].start..merged[i].end :
                \/ CoveredByEntry(date_entries, merged[i], d)
                \/ Weekday(d) >= 5
                \/ InCrossMonthGap(date_entries, d)

\* Christmas Break 2025-12-22..31 and Student Holiday 2026-01-02 are one run
\* that holds Thursday 2026-01-01, a day of neither entry
C26_Witness ==
    /\ pc = "merged"
    /\ \E i \in DOMAIN merged :
          /\ merged[i].start = Ord(2025, 12, 22)
          /\ merged[i].end = Ord(2026, 1, 2)
          /\ ~CoveredByEntry(date_entries, merged[i], Ord(2026, 1, 1))
          /\ Weekday(Ord(2026, 1, 1)) = 3

\* the list holds a Thanksgiving Break before the fallback: one named so by the
\* merger, or the one the November consolidation builds
ThanksgivingExtracted(hs, year) ==
    \/ \E i \in DOMAIN hs : hs[i].name = n_Thanksgiving_Break
    \/ /\ Cardinality(LateNovember(hs, year)) >= 2
       /\ SpanAccepted(hs, LateNovember(hs, year), year)

ThanksgivingBreaks(hs) == {i \in DOMAIN hs : hs[i].name = n_Thanksgiving_Break}

\* C27: given a parseable schoolYear and at least one day-off entry, the list
\* merge_and_normalize_breaks returns holds a "Thanksgiving Break"; when none
\* was extracted it is one spanning Monday to Friday of the week of the 4th
\* Thursday of November of the fall year; "Thanksgiving Break" is never in
\* omittedHolidays.
C27_ThanksgivingPresent ==
    (pc = "merged" /\ schoolYear = sy_2025_2026 /\ date_entries # <<>>) =>
        /\ ThanksgivingBreaks(holidays) # {}
        /\ \A f \in BeforeNovember(date_entries, schoolYear) :
              ~ThanksgivingExtracted(f, YearPart(schoolYear, 1)) =>
                  /\ Cardinality(ThanksgivingBreaks(holidays)) = 1
                  /\ \A i \in ThanksgivingBreaks(holidays) :
                        /\ parse_date(holidays[i].startDate)
                              = Thanksgiving(YearPart(schoolYear, 1)) - 3
                        /\ parse_date(holidays[i].endDate)
                              = Thanksgiving(YearPart(schoolYear, 1)) + 1
                        /\ Weekday(parse_date(holidays[i].startDate)) = 0
                        /\ Weekday(parse_date(holidays[i].endDate)) = 4
        /\ \A k \in DOMAIN omitted : omitted[k] # n_Thanksgiving_Break

\* an upload without any range of Thanksgiving week got the synthesized
\* Thanksgiving Break 2025-11-24..28
C27_Witness ==
    /\ pc = "merged" /\ schoolYear = sy_2025_2026 /\ date_entries # <<>>
    /\ \A f \in BeforeNovember(date_entries, schoolYear) :
          ~ThanksgivingExtracted(f, 2025)
    /\ \E i \in DOMAIN holidays :
          /\ holidays[i].name = n_Thanksgiving_Break
          /\ holidays[i].startDate = D(2025, 11, 24)
          /\ holidays[i].endDate = D(2025, 11, 28)
          /\ holidays[i].notes = t_Inferred_from_school_year

\* the candidate is computed by infer_christmas_break
ByChristmasRule(c) ==
    /\ get_federal_holiday_date(c.holiday_name, c.target_year) = None
    /\ \/ Contains(c.holiday_name, k_christmas)
       \/ Contains(c.holiday_name, k_winter) /\ Month(c.source_start) = 12

C29_EndsOnWeekday ==
    (pc = "inferred" /\ rawDates # <<>>) =>
        \A i \in DOMAIN holidays :
            parse_date(holidays[i].endDate) > parse_date(holidays[i].startDate)
                => Weekday(parse_date(holidays[i].endDate)) < 5

====
